---- MODULE Spec2Model ----
(***************************************************************************)
(* A model of the book reader: the paginator of the text viewer, the       *)
(* three annotation stores, the JSON persistence layer and the host        *)
(* (BookReaderApp) that wires them together.                               *)
(*                                                                         *)
(* Text is a sequence of characters.  A character is a one-element string, *)
(* except "SP" (a space), "NL" (a line feed), "W" (a run of 80 characters  *)
(* that are not white space) and "=" (the byline's rule of 50 "=" signs):  *)
(* Width gives the number of Python characters each stands for.            *)
(***************************************************************************)
EXTENDS Integers, Sequences, FiniteSets, TLC

VARIABLES
    \* ---- TextViewer (src/features/text_display/text_viewer.py)
    pages,            \* self.pages: sequence of page texts
    current_page,     \* self.current_page (0-indexed)
    lines_per_page,   \* self.lines_per_page
    current_content,  \* self.current_content (loaded = FALSE models None)
    source,           \* the document the host hands to the viewer
    nav,              \* history: the last viewer operation and what it returned
    font,             \* self.font_family, font_size, line_spacing (in tenths)
    \* ---- the data directory and DataStorage (src/data/storage.py)
    fs,               \* the files of ~/.book_reader: path -> file
    storage_data,     \* self.highlights_data, notes_data, bookmarks_data
    library_data,     \* self.library_data
    settings_data,    \* self.settings_data
    heap,             \* the record objects in memory: reference -> record
    st_pc,            \* the process: "off", "up", or "failed" (died starting)
    sv,               \* the running (or last) safe_json_save call
    calls,            \* number of DataStorage calls made so far (bounded)
    ret,              \* the last DataStorage operation and what it returned
    before,           \* history: the dicts as they were when it was called
    \* ---- the annotation managers and BookReaderApp (src/core/app.py)
    store,            \* the managers' dicts: collection -> entries (id, record)
    current_book_path,\* self.current_book_path (NoPath models None)
    issued,           \* the IDs uuid4 has returned so far
    origin,           \* history: ID -> the book open when its record was added
    op,               \* history: the last operation of a manager or of the host
    trip,             \* history: what was last read out of a manager and saved
    \* ---- the helpers called on their own (src/utils/helpers.py and others)
    args              \* the arguments a caller passes to a helper

viewerVars == <<pages, current_page, lines_per_page, current_content, source, nav,
                font>>

storageVars == <<fs, storage_data, library_data, settings_data, heap, st_pc, sv,
                 calls, ret, before>>

appVars == <<store, current_book_path, issued, origin, op, trip, args>>

\* appVars but for the history of the last operation
managerVars == <<store, current_book_path, issued, origin, trip, args>>

vars == <<viewerVars, storageVars, appVars>>

-----------------------------------------------------------------------------
(* Bounds of the model. *)

MaxContentLen == 4     \* characters in a document's content

MaxCalls == 2          \* step-by-step DataStorage calls in a run

MaxWholeCalls == 1     \* whole DataStorage calls after a start

MaxHostCalls == 5      \* calls a host makes on the managers and the storage

MaxRecords == 2        \* records a host puts in one manager before it queries

MaxTextLen == 3        \* characters in a text handed to the position helpers

MaxFileLen == 3        \* bytes in a file handed to TextReader.read

MaxSessionLen == 1     \* characters in the content of a session's documents

-----------------------------------------------------------------------------
(* Text helpers: what str.strip, len and re.split(r'\n\s*\n', .) do. *)

IsSpace(c) == c \in {"SP", "NL"}

Width(c) == IF c = "W" THEN 80 ELSE IF c = "=" THEN 50 ELSE 1

RECURSIVE PyLen(_)
PyLen(s) == IF s = <<>> THEN 0 ELSE Width(Head(s)) + PyLen(Tail(s))

RECURSIVE lstrip(_)
lstrip(s) == IF s # <<>> /\ IsSpace(Head(s)) THEN lstrip(Tail(s)) ELSE s

RECURSIVE rstrip(_)
rstrip(s) ==
    IF s # <<>> /\ IsSpace(s[Len(s)]) THEN rstrip(SubSeq(s, 1, Len(s) - 1)) ELSE s

strip(s) == rstrip(lstrip(s))

Max(a, b) == IF a >= b THEN a ELSE b

Min(a, b) == IF a <= b THEN a ELSE b

\* The end of the match of \n\s*\n that starts at s[i] = "\n": \s* is greedy, so
\* the match ends at the last "\n" of the white space that follows; 0 if none.
SepEnd(s, i) ==
    LET ends == {j \in (i + 1)..Len(s) :
                    /\ s[j] = "NL"
                    /\ \A k \in (i + 1)..(j - 1) : IsSpace(s[k])}
    IN  IF ends = {} THEN 0 ELSE CHOOSE j \in ends : \A k \in ends : k <= j

\* re.split(r'\n\s*\n', s): scanning from i, the piece that began at `from`.
RECURSIVE SplitFrom(_, _, _)
SplitFrom(s, from, i) ==
    IF i > Len(s) THEN <<SubSeq(s, from, Len(s))>>
    ELSE IF s[i] = "NL" /\ SepEnd(s, i) # 0
         THEN <<SubSeq(s, from, i - 1)>>
                  \o SplitFrom(s, SepEnd(s, i) + 1, SepEnd(s, i) + 1)
         ELSE SplitFrom(s, from, i + 1)

re_split(s) == SplitFrom(s, 1, 1)

-----------------------------------------------------------------------------
(* TextViewer.create_pages *)

DefaultLinesPerPage == 25

Placeholder == <<"No content available">>

NLNL == <<"NL", "NL">>

Rule == <<"=">>

\* full_text: title, byline and rule (each only when truthy), then the content.
full_text(content_data) ==
    (IF content_data.title # <<>> THEN content_data.title \o NLNL ELSE <<>>)
    \o (IF content_data.author # <<>>
        THEN <<"b", "y", "SP">> \o content_data.author \o NLNL \o Rule \o NLNL
        ELSE <<>>)
    \o content_data.content

\* paragraph_lines without the two lines of spacing.
paragraph_lines_no_spacing(paragraph) == Max(1, PyLen(paragraph) \div 80)

\* max(1, len(paragraph) // 80) + 2
paragraph_lines(paragraph) == Max(1, PyLen(paragraph) \div 80) + 2

\* PageLoop with a slip: the paragraph that opens a new page is left out of it.
RECURSIVE PageLoopDropsOpener(_, _, _, _, _, _)
PageLoopDropsOpener(paragraphs, i, pgs, current_page_text, estimated_lines, lpp) ==
    IF i > Len(paragraphs)
    THEN [pages |-> pgs, current_page_text |-> current_page_text]
    ELSE LET paragraph == paragraphs[i] IN
         IF strip(paragraph) = <<>>
         THEN PageLoopDropsOpener(paragraphs, i + 1, pgs, current_page_text,
                                  estimated_lines, lpp)
         ELSE IF /\ estimated_lines + paragraph_lines(paragraph) > lpp
                 /\ current_page_text # <<>>
              THEN PageLoopDropsOpener(paragraphs, i + 1,
                            Append(pgs, strip(current_page_text)),
                            <<>>, 0, lpp)
              ELSE PageLoopDropsOpener(paragraphs, i + 1, pgs,
                            current_page_text \o paragraph \o NLNL,
                            estimated_lines + paragraph_lines(paragraph), lpp)

\* The for loop of create_pages over paragraphs[i..], with the pages built so
\* far, the text of the page being filled and its estimated lines.
RECURSIVE PageLoop(_, _, _, _, _, _)
PageLoop(paragraphs, i, pgs, current_page_text, estimated_lines, lpp) ==
    IF i > Len(paragraphs)
    THEN [pages |-> pgs, current_page_text |-> current_page_text]
    ELSE LET paragraph == paragraphs[i] IN
         IF strip(paragraph) = <<>>
         THEN PageLoop(paragraphs, i + 1, pgs, current_page_text,
                       estimated_lines, lpp)
         ELSE IF /\ estimated_lines + paragraph_lines(paragraph) > lpp
                 /\ current_page_text # <<>>
              THEN PageLoop(paragraphs, i + 1,
                            Append(pgs, strip(current_page_text)),
                            paragraph \o NLNL,
                            paragraph_lines(paragraph), lpp)
              ELSE PageLoop(paragraphs, i + 1, pgs,
                            current_page_text \o paragraph \o NLNL,
                            estimated_lines + paragraph_lines(paragraph), lpp)

\* AtLeastOnePage with the fallback forgotten.
AtLeastOnePageNoFallback(pgs, text) == pgs

\* The pages when the loop found none: [full_text or "No content available"].
AtLeastOnePage(pgs, text) ==
    IF pgs = <<>> THEN <<IF text # <<>> THEN text ELSE Placeholder>> ELSE pgs

create_pages(content_data, lpp) ==
    LET text == full_text(content_data)
        done == PageLoop(re_split(text), 1, <<>>, <<>>, 0, lpp)
        withLast == IF strip(done.current_page_text) # <<>>
                    THEN Append(done.pages, strip(done.current_page_text))
                    ELSE done.pages
    IN  AtLeastOnePage(withLast, text)

-----------------------------------------------------------------------------
(* The documents and budgets the paginator is tried on. *)

Chars == {"a", "W", "SP", "NL"}

RECURSIVE TextsUpTo(_)
TextsUpTo(n) ==
    IF n = 0 THEN {<<>>}
    ELSE LET shorter == TextsUpTo(n - 1)
         IN  shorter \cup {Append(t, c) : t \in shorter, c \in Chars}

Titles == {<<>>, <<"T">>}

Authors == {<<>>, <<"A">>}

Docs == [title : Titles, author : Authors, content : TextsUpTo(MaxContentLen),
         loaded : {TRUE}]

NoContent == [title |-> <<>>, author |-> <<>>, content |-> <<>>, loaded |-> FALSE]

LinesPerPageChoices == {4, 7, DefaultLinesPerPage}

NoNav == [ret |-> FALSE, before |-> 0, op |-> "none", target |-> 0]

-----------------------------------------------------------------------------
(* TextViewer: the page operations. *)

\* PageInRange without the test for a negative page number.
PageInRangeNoLower(pgs, page_number) == pgs # <<>> /\ page_number < Len(pgs)

\* display_page's guard: the page exists.
PageInRange(pgs, page_number) ==
    pgs # <<>> /\ page_number >= 0 /\ page_number < Len(pgs)

\* display_page(page_number) on pages pgs: the new current_page and the result.
DisplayPage(pgs, cur, page_number) ==
    IF PageInRange(pgs, page_number)
    THEN [current_page |-> page_number, ret |-> TRUE]
    ELSE [current_page |-> cur, ret |-> FALSE]

display_page(page_number) ==
    LET r == DisplayPage(pages, current_page, page_number) IN
    /\ current_page' = r.current_page
    /\ nav' = [ret |-> r.ret, before |-> current_page,
               op |-> "display_page", target |-> page_number]
    /\ UNCHANGED <<pages, lines_per_page, current_content, source, font>>

next_page ==
    LET r == IF current_page < Len(pages) - 1
             THEN DisplayPage(pages, current_page, current_page + 1)
             ELSE [current_page |-> current_page, ret |-> FALSE] IN
    /\ current_page' = r.current_page
    /\ nav' = [ret |-> r.ret, before |-> current_page,
               op |-> "next_page", target |-> current_page + 1]
    /\ UNCHANGED <<pages, lines_per_page, current_content, source, font>>

previous_page ==
    LET r == IF current_page > 0
             THEN DisplayPage(pages, current_page, current_page - 1)
             ELSE [current_page |-> current_page, ret |-> FALSE] IN
    /\ current_page' = r.current_page
    /\ nav' = [ret |-> r.ret, before |-> current_page,
               op |-> "previous_page", target |-> current_page - 1]
    /\ UNCHANGED <<pages, lines_per_page, current_content, source, font>>

\* display_content without the jump to the first page.
display_content_keeping_page(content_data) ==
    /\ current_content' = content_data
    /\ pages' = create_pages(content_data, lines_per_page)
    /\ nav' = [ret |-> FALSE, before |-> current_page,
               op |-> "display_content", target |-> 0]
    /\ UNCHANGED <<current_page, lines_per_page, source>>

\* display_content: paginate, then display_page(0).
display_content(content_data) ==
    LET pgs == create_pages(content_data, lines_per_page)
        r == DisplayPage(pgs, current_page, 0) IN
    /\ current_content' = content_data
    /\ pages' = pgs
    /\ current_page' = r.current_page
    /\ nav' = [ret |-> r.ret, before |-> current_page,
               op |-> "display_content", target |-> 0]
    /\ UNCHANGED <<lines_per_page, source>>

\* __init__'s font settings (line_spacing in tenths).
DefaultFont == [font_family |-> "Georgia", font_size |-> 16, line_spacing |-> 16]

set_font_size(size) ==
    /\ font' = [font EXCEPT !.font_size = size]
    /\ IF current_content.loaded
       THEN display_content(current_content)
       ELSE UNCHANGED <<pages, current_page, lines_per_page, current_content,
                        source, nav>>

set_font_family(family) ==
    /\ font' = [font EXCEPT !.font_family = family]
    /\ IF current_content.loaded
       THEN display_content(current_content)
       ELSE UNCHANGED <<pages, current_page, lines_per_page, current_content,
                        source, nav>>

set_line_spacing(spacing) ==
    /\ font' = [font EXCEPT !.line_spacing = spacing]
    /\ IF current_content.loaded
       THEN display_content(current_content)
       ELSE UNCHANGED <<pages, current_page, lines_per_page, current_content,
                        source, nav>>

ViewerInit ==
    /\ pages = <<>>
    /\ current_page = 0
    /\ font = DefaultFont
    /\ current_content = NoContent
    /\ nav = NoNav

-----------------------------------------------------------------------------
(* Python dicts: functions with a finite domain. *)

EmptyDict == [k \in {} |-> k]

DictSet(d, k, v) == [x \in DOMAIN d \cup {k} |-> IF x = k THEN v ELSE d[x]]

DictDel(d, k) == [x \in DOMAIN d \ {k} |-> d[x]]

DictGet(d, k, default) == IF k \in DOMAIN d THEN d[k] ELSE default

\* The elements of a finite set in a fixed order (the order json.dump and the
\* loops over a dict meet the keys in).
RECURSIVE SetToSeq(_)
SetToSeq(S) ==
    IF S = {} THEN <<>>
    ELSE LET x == CHOOSE x \in S : TRUE IN <<x>> \o SetToSeq(S \ {x})

-----------------------------------------------------------------------------
(* The record objects.  A Python list of records is a sequence of references
   into heap; two lists that hold the same reference share the record. *)

EmptyHeap == [r \in {} |-> r]

\* The reference of a new object: the smallest one not in use.
NewRef(h) ==
    CHOOSE n \in 1..(Cardinality(DOMAIN h) + 1) :
        n \notin DOMAIN h /\ \A m \in 1..(n - 1) : m \in DOMAIN h

\* New objects for the records recs: the heap and their references, in order.
RECURSIVE AllocList(_, _)
AllocList(h, recs) ==
    IF recs = <<>> THEN [heap |-> h, refs |-> <<>>]
    ELSE LET r == NewRef(h)
             rest == AllocList([x \in DOMAIN h \cup {r} |->
                                   IF x = r THEN Head(recs) ELSE h[x]],
                               Tail(recs))
         IN  [heap |-> rest.heap, refs |-> <<r>> \o rest.refs]

\* The records a list of references stands for.
Deref(h, refs) == [i \in 1..Len(refs) |-> h[refs[i]]]

\* A dict of lists of references, as the dict of lists of records.
DerefDict(h, d) == [k \in DOMAIN d |-> Deref(h, d[k])]

-----------------------------------------------------------------------------
(* The data directory.  A file is there or not and holds a JSON text: a
   sequence of chunks, "{" , one entry per key of the dict, "}". *)

Collections == {"highlights", "notes", "bookmarks"}

CollectionOrder == <<"highlights", "notes", "bookmarks">>

\* self.<collection>_file, and the file safe_json_save writes first.
Path(collection) == [name |-> collection, tmp |-> FALSE]

FileNames == Collections \cup {"settings", "library"}

Paths == {[name |-> c, tmp |-> t] : c \in FileNames, t \in BOOLEAN}

Missing == [text |-> <<>>, exists |-> FALSE]

FileOf(text) == [text |-> text, exists |-> TRUE]

OpenBrace == <<"{">>

CloseBrace == <<"}">>

\* A value that is None in Python.
None == "None"

\* The fields that hold a string or None, a list of strings, a number, a dict.
NullableFields == {"note", "last_opened"}

ListFields == {"notes"}

NumberFields == {"reading_progress"}

DictFields == {"metadata"}

\* json.dumps of one field of a record: None is null, a list an array of
\* strings, a float a number, a dict an object, every other field a string.
EncodeField(f, v) ==
    IF f \in ListFields THEN <<"array", [i \in 1..Len(v) |-> <<"string", v[i]>>]>>
    ELSE IF f \in NumberFields THEN <<"number", v>>
    ELSE IF f \in DictFields THEN <<"object", v>>
    ELSE IF f \in NullableFields /\ v = None THEN <<"null">>
    ELSE <<"string", v>>

\* DecodeField reading null as the empty string.
DecodeField_null_as_empty(f, j) ==
    IF j[1] = "array" THEN [i \in 1..Len(j[2]) |-> j[2][i][2]]
    ELSE IF j[1] = "null" THEN ""
    ELSE j[2]

\* json.load of one field.
DecodeField(f, j) ==
    IF j[1] = "array" THEN [i \in 1..Len(j[2]) |-> j[2][i][2]]
    ELSE IF j[1] = "null" THEN None
    ELSE j[2]

EncodeRecord(r) == [f \in DOMAIN r |-> EncodeField(f, r[f])]

DecodeRecord(j) == [f \in DOMAIN j |-> DecodeField(f, j[f])]

\* The value of one key of a file's dict: a list of records in a collection,
\* a book record in the library, a string in the settings.
EncodeValue(name, v) ==
    IF name \in Collections THEN [i \in 1..Len(v) |-> EncodeRecord(v[i])]
    ELSE IF name = "library" THEN EncodeRecord(v)
    ELSE EncodeField(name, v)

DecodeValue(name, j) ==
    IF name \in Collections THEN [i \in 1..Len(j) |-> DecodeRecord(j[i])]
    ELSE IF name = "library" THEN DecodeRecord(j)
    ELSE DecodeField(name, j)

\* json.dump(data): the chunks written for the dict d of the file `name`.
RECURSIVE DumpEntries(_, _, _)
DumpEntries(name, d, keys) ==
    IF keys = <<>> THEN <<>>
    ELSE <<<<"entry", Head(keys), EncodeValue(name, d[Head(keys)])>>>>
         \o DumpEntries(name, d, Tail(keys))

json_dump(name, d) ==
    <<OpenBrace>> \o DumpEntries(name, d, SetToSeq(DOMAIN d)) \o <<CloseBrace>>

\* Whether json.load accepts the text: a whole document.
Parses(text) ==
    /\ Len(text) >= 2
    /\ text[1][1] = "{"
    /\ text[Len(text)][1] = "}"
    /\ \A i \in 2..(Len(text) - 1) : text[i][1] = "entry"

\* json.load of a text that parses: the dict (a key written twice keeps its
\* last value).
json_load(name, text) ==
    LET entries == 2..(Len(text) - 1)
        keys == {text[i][2] : i \in entries}
        last(k) == CHOOSE i \in entries :
                      text[i][2] = k /\ \A j \in entries : text[j][2] = k => j <= i
    IN  [k \in keys |-> DecodeValue(name, text[last(k)][3])]

\* safe_json_load with the try/except left out: a bad file raises.
safe_json_load_unguarded(files, filepath, default) ==
    IF files[filepath].exists
    THEN IF Parses(files[filepath].text)
         THEN [raised |-> FALSE,
               value |-> json_load(filepath.name, files[filepath].text)]
         ELSE [raised |-> TRUE, value |-> default]
    ELSE [raised |-> FALSE, value |-> default]

\* safe_json_load(filepath, default): what it returns, and whether it raised.
safe_json_load(files, filepath, default) ==
    IF files[filepath].exists /\ Parses(files[filepath].text)
    THEN [raised |-> FALSE, value |-> json_load(filepath.name, files[filepath].text)]
    ELSE [raised |-> FALSE, value |-> default]

\* temp_filepath with the suffix forgotten: the real file is written in place.
temp_filepath_in_place(filepath) == filepath

\* temp_filepath = filepath + '.tmp'
temp_filepath(filepath) == [filepath EXCEPT !.tmp = TRUE]

\* os.replace(src, dst)
os_replace(files, src, dst) ==
    IF src = dst THEN files
    ELSE [files EXCEPT ![dst] = files[src], ![src] = Missing]

\* os.remove(path), any error ignored.
os_remove(files, path) == [files EXCEPT ![path] = Missing]

\* A whole run of safe_json_save(filepath, data) that is not interrupted: with
\* ok the temporary file is written and replaces the real one (True); without,
\* an error was raised on the way and the temporary file is removed (False).
safe_json_save(files, filepath, data, ok) ==
    IF ok
    THEN os_replace([files EXCEPT ![temp_filepath(filepath)] =
                                      FileOf(json_dump(filepath.name, data))],
                    temp_filepath(filepath), filepath)
    ELSE os_remove(files, temp_filepath(filepath))

-----------------------------------------------------------------------------
(* DataStorage *)

\* The places of all records of the loaded dicts, in a fixed order.
RECURSIVE Places(_, _, _)
Places(loaded, cs, keys) ==
    IF cs = <<>> THEN <<>>
    ELSE IF keys = <<>>
         THEN IF Len(cs) = 1 THEN <<>>
              ELSE Places(loaded, Tail(cs), SetToSeq(DOMAIN loaded[cs[2]]))
         ELSE [i \in 1..Len(loaded[Head(cs)][Head(keys)]) |->
                  [collection |-> Head(cs), key |-> Head(keys), index |-> i]]
              \o Places(loaded, cs, Tail(keys))

AllPlaces(loaded) ==
    Places(loaded, CollectionOrder, SetToSeq(DOMAIN loaded[CollectionOrder[1]]))

\* DataStorage.__init__: every collection is read from its file; the records
\* read are new objects.
LoadedDicts(files) ==
    [c \in FileNames |-> safe_json_load(files, Path(c), EmptyDict)]

HeapOfLoaded(loaded) ==
    LET places == AllPlaces(loaded)
    IN  [r \in 1..Len(places) |->
            loaded[places[r].collection][places[r].key][places[r].index]]

DataOfLoaded(loaded) ==
    LET places == AllPlaces(loaded)
    IN  [c \in Collections |->
            [k \in DOMAIN loaded[c] |->
                [i \in 1..Len(loaded[c][k]) |->
                    CHOOSE r \in 1..Len(places) :
                        places[r] = [collection |-> c, key |-> k, index |-> i]]]]

\* The references the storage holds.
StorageRefs(data) ==
    UNION {UNION {{data[c][k][i] : i \in 1..Len(data[c][k])} : k \in DOMAIN data[c]}
           : c \in Collections}

NoSave == [path |-> Path("highlights"), pc |-> "none", at |-> "none",
           chunks |-> <<>>, old |-> Missing]

NoData == [c \in Collections |-> EmptyDict]

NoRet == [op |-> "none", value |-> FALSE]

NoBefore == [files |-> [p \in Paths |-> Missing], data |-> NoData,
             library |-> EmptyDict]

\* No process yet: nothing in memory.
MemoryOff ==
    /\ storage_data = NoData
    /\ library_data = EmptyDict
    /\ settings_data = EmptyDict
    /\ heap = EmptyHeap
    /\ st_pc = "off"
    /\ sv = NoSave
    /\ calls = 0
    /\ ret = NoRet
    /\ before = NoBefore

StorageOff ==
    /\ fs = [p \in Paths |-> Missing]
    /\ MemoryOff

\* self.current_book_path = None
NoPath == [name |-> "", dir |-> ""]

\* self.highlights = {}, self.notes = {}, self.bookmarks = {}
NoStore == [c \in Collections |-> <<>>]

NoOp == [c |-> "none", name |-> "none", value |-> FALSE, key |-> <<>>, id |-> ""]

NoTrip == [c |-> "none", recs |-> {}, key |-> <<>>, valid |-> FALSE, fresh |-> FALSE]

\* No helper is called.
NoArgs == [kind |-> "none"]

\* No managers and no host yet.
AppOff ==
    /\ store = NoStore
    /\ current_book_path = NoPath
    /\ issued = {}
    /\ origin = EmptyDict
    /\ op = NoOp
    /\ trip = NoTrip
    /\ args = NoArgs

-----------------------------------------------------------------------------
(* The annotation records, as the managers build them. *)

\* HighlightManager.add_highlight: highlight_data
highlight_data(id, start_index, end_index, text, color, now) ==
    [text |-> text, id |-> id, start_index |-> start_index,
     end_index |-> end_index, color |-> color, created_at |-> now, notes |-> <<>>]

\* NotesManager.add_note: note_data
note_data(id, position, text, note_type, now) ==
    [text |-> text, id |-> id, created_at |-> now, position |-> position,
     type |-> note_type, modified_at |-> now]

\* The note of a highlight that also carries a position.
highlight_note_data_with_position(id, highlight_id, text, now) ==
    [text |-> text, id |-> id, created_at |-> now, position |-> <<"1", ".", "0">>,
     type |-> "highlight_note", modified_at |-> now, highlight_id |-> highlight_id]

\* NotesManager.add_note_to_highlight: note_data
highlight_note_data(id, highlight_id, text, now) ==
    [text |-> text, id |-> id, created_at |-> now,
     type |-> "highlight_note", modified_at |-> now, highlight_id |-> highlight_id]

\* BookmarkManager.add_bookmark: bookmark_data
bookmark_data(id, position, title, note, now) ==
    [title |-> title, id |-> id, created_at |-> now, position |-> position,
     note |-> note]

\* A text position "line.char", as its characters.
Pos(line, char) == <<line, ".", char>>

-----------------------------------------------------------------------------
(* DataStorage.save_<collection> and delete_<collection>, with safe_json_save
   run step by step so that the process can die between any two steps. *)

\* The files and the dicts as they are when a call is made.
Snapshot == [files |-> fs,
             data |-> [c \in Collections |-> DerefDict(heap, storage_data[c])],
             library |-> library_data]

Running == st_pc = "up" /\ sv.pc \in {"open", "dump"}

Callable == st_pc = "up" /\ ~Running /\ calls < MaxCalls

\* save_<collection>(book_id, records): the dict entry is set and
\* safe_json_save(self.<collection>_file, self.<collection>_data) is entered.
save_call(c, book_id, recs) ==
    LET a == AllocList(heap, recs)
        data == [storage_data EXCEPT ![c] = DictSet(@, book_id, a.refs)] IN
    /\ Callable
    /\ storage_data' = data
    /\ heap' = [r \in StorageRefs(data) |-> a.heap[r]]
    /\ sv' = [path |-> Path(c), pc |-> "open", at |-> "none",
              chunks |-> json_dump(c, DerefDict(a.heap, data[c])),
              old |-> fs[Path(c)]]
    /\ calls' = calls + 1
    /\ ret' = [op |-> "save", value |-> FALSE]
    /\ op' = [c |-> c, name |-> "save", value |-> FALSE, key |-> book_id, id |-> ""]
    /\ before' = Snapshot
    /\ UNCHANGED <<fs, st_pc, library_data, settings_data>>

\* delete_<collection>(book_id): an entry that is there is deleted and the
\* collection saved; without one, True is returned at once.
delete_call(c, book_id) ==
    LET data == [storage_data EXCEPT ![c] = DictDel(@, book_id)] IN
    /\ Callable
    /\ calls' = calls + 1
    /\ IF book_id \in DOMAIN storage_data[c]
       THEN /\ storage_data' = data
            /\ heap' = [r \in StorageRefs(data) |-> heap[r]]
            /\ sv' = [path |-> Path(c), pc |-> "open", at |-> "none",
                      chunks |-> json_dump(c, DerefDict(heap, data[c])),
                      old |-> fs[Path(c)]]
            /\ ret' = [op |-> "delete", value |-> FALSE]
       ELSE /\ ret' = [op |-> "delete", value |-> TRUE]
            /\ UNCHANGED <<storage_data, heap, sv>>
    /\ op' = [c |-> c, name |-> "delete", value |-> FALSE, key |-> book_id, id |-> ""]
    /\ before' = Snapshot
    /\ UNCHANGED <<fs, st_pc, library_data, settings_data>>

\* load_<collection>(book_id): self.<collection>_data.get(book_id, []); nothing
\* is read from the file.
load_call(c, book_id) ==
    /\ Callable
    /\ calls' = calls + 1
    /\ ret' = [op |-> "load", value |-> TRUE]
    /\ op' = [c |-> c, name |-> "load", value |-> TRUE, key |-> book_id, id |-> ""]
    /\ before' = Snapshot
    /\ UNCHANGED <<fs, storage_data, heap, sv, st_pc, library_data, settings_data>>

\* open(temp_filepath, 'w'): the temporary file is created or emptied.
sv_open ==
    /\ st_pc = "up" /\ sv.pc = "open"
    /\ fs' = [fs EXCEPT ![temp_filepath(sv.path)] = FileOf(<<>>)]
    /\ sv' = [sv EXCEPT !.pc = "dump"]
    /\ UNCHANGED <<storage_data, library_data, settings_data, heap, st_pc, calls,
                   ret, before>>

\* json.dump writes the next chunk to the temporary file.
sv_write ==
    LET tmp == temp_filepath(sv.path) IN
    /\ st_pc = "up" /\ sv.pc = "dump"
    /\ Len(fs[tmp].text) < Len(sv.chunks)
    /\ fs' = [fs EXCEPT ![tmp] =
                 FileOf(Append(@.text, sv.chunks[Len(@.text) + 1]))]
    /\ UNCHANGED <<storage_data, library_data, settings_data, heap, st_pc, sv,
                   calls, ret, before>>

\* The file is closed and os.replace(temp_filepath, filepath) run: True.
sv_replace ==
    LET tmp == temp_filepath(sv.path) IN
    /\ st_pc = "up" /\ sv.pc = "dump"
    /\ Len(fs[tmp].text) = Len(sv.chunks)
    /\ fs' = os_replace(fs, tmp, sv.path)
    /\ sv' = [sv EXCEPT !.pc = "done"]
    /\ ret' = [ret EXCEPT !.value = TRUE]
    /\ UNCHANGED <<storage_data, library_data, settings_data, heap, st_pc, calls,
                   before>>

\* An error is raised while opening, writing or replacing: the except branch
\* removes the temporary file and returns False.
sv_error ==
    /\ Running
    /\ fs' = os_remove(fs, temp_filepath(sv.path))
    /\ sv' = [sv EXCEPT !.pc = "failed", !.at = sv.pc]
    /\ ret' = [ret EXCEPT !.value = FALSE]
    /\ UNCHANGED <<storage_data, library_data, settings_data, heap, st_pc, calls,
                   before>>

\* The process dies: what is in memory is gone, the files stay as they are.
crash ==
    /\ st_pc = "up"
    /\ st_pc' = "off"
    /\ storage_data' = NoData
    /\ library_data' = EmptyDict
    /\ settings_data' = EmptyDict
    /\ heap' = EmptyHeap
    /\ sv' = IF Running THEN [sv EXCEPT !.pc = "crashed", !.at = sv.pc] ELSE sv
    /\ ret' = [op |-> "crash", value |-> FALSE]
    /\ UNCHANGED <<fs, calls, before>>

\* DataStorage.__init__ in a new process: every collection is loaded from its
\* file; an exception leaving safe_json_load would end the process.
storage_init ==
    LET loaded == LoadedDicts(fs)
        values == [c \in Collections |-> loaded[c].value] IN
    /\ st_pc = "off"
    /\ IF \E c \in FileNames : loaded[c].raised
       THEN /\ st_pc' = "failed"
            /\ UNCHANGED <<storage_data, library_data, settings_data, heap>>
       ELSE /\ st_pc' = "up"
            /\ storage_data' = DataOfLoaded(values)
            /\ heap' = HeapOfLoaded(values)
            /\ settings_data' = loaded["settings"].value
            /\ library_data' = loaded["library"].value
    /\ ret' = [op |-> "init", value |-> TRUE]
    /\ UNCHANGED <<fs, sv, calls, before>>

-----------------------------------------------------------------------------
(* The persistence layer on its own: a host that saves and deletes the
   collections of two books, a process that can die at any step, and a data
   directory whose files may be missing or damaged when the program starts. *)

SampleBookIds == {<<"a.txt">>, <<"b.txt">>}

SampleRecord(c) ==
    IF c = "highlights"
    THEN highlight_data("u1", Pos("1", "0"), Pos("1", "5"), "foo", "yellow", "t1")
    ELSE IF c = "notes"
    THEN note_data("u2", Pos("2", "0"), "bar", "margin", "t1")
    ELSE bookmark_data("u3", Pos("3", "0"), <<"Title">>, None, "t1")

SampleLists(c) == {<<>>, <<SampleRecord(c)>>}

\* A file cut short: json.load raises on it.
Truncated == FileOf(<<OpenBrace>>)

InitialFiles == {Missing, Truncated, FileOf(<<OpenBrace, CloseBrace>>)}

InitSave ==
    /\ ViewerInit
    /\ lines_per_page = DefaultLinesPerPage
    /\ source = NoContent
    /\ \E file \in InitialFiles :
           fs = [p \in Paths |-> IF p.tmp THEN Missing ELSE file]
    /\ MemoryOff
    /\ AppOff

NextSave ==
    \/ storage_init /\ UNCHANGED <<viewerVars, appVars>>
    \/ \E c \in Collections, b \in SampleBookIds :
           \E recs \in SampleLists(c) :
               save_call(c, b, recs) /\ UNCHANGED <<viewerVars, managerVars>>
    \/ \E c \in Collections, b \in SampleBookIds :
           delete_call(c, b) /\ UNCHANGED <<viewerVars, managerVars>>
    \/ \E c \in Collections, b \in SampleBookIds :
           load_call(c, b) /\ UNCHANGED <<viewerVars, managerVars>>
    \/ sv_open /\ UNCHANGED <<viewerVars, appVars>>
    \/ sv_write /\ UNCHANGED <<viewerVars, appVars>>
    \/ sv_replace /\ UNCHANGED <<viewerVars, appVars>>
    \/ sv_error /\ UNCHANGED <<viewerVars, appVars>>
    \/ crash /\ UNCHANGED <<viewerVars, appVars>>

SpecSave == InitSave /\ [][NextSave]_vars

-----------------------------------------------------------------------------
(* The user's book files, and the book IDs. *)

\* A file path: its directory and its base name.
FilePath(dir, name) == [name |-> name, dir |-> dir]

\* Two files of the same name and different contents, a file of another name
\* with the contents of the first, a path that names no file.
BookA == FilePath("/books", "a.txt")

BookA2 == FilePath("/other", "a.txt")

BookB == FilePath("/books", "b.txt")

NoBook == FilePath("/books", "gone.txt")

BookPaths == {BookA, BookA2, BookB, NoBook}

\* The bytes of a book file; "absent" when the path names no file.
BookBytes(filepath) ==
    IF filepath = BookA THEN "alpha"
    ELSE IF filepath = BookA2 THEN "beta"
    ELSE IF filepath = BookB THEN "alpha"
    ELSE "absent"

\* hashlib.md5(bytes).hexdigest(), as its first 8 characters and the rest.
md5_hexdigest(bytes) ==
    IF bytes = "alpha" THEN [rest |-> "91305fbf367df8e4f069f9f9", head8 |-> "2c1743a3"]
    ELSE IF bytes = "beta" THEN [rest |-> "1b929eb2c07877b224215c92", head8 |-> "987bcab0"]
    ELSE IF bytes = "a.txt" THEN [rest |-> "d7bb69a228ef0dcd2431367e", head8 |-> "a5e54d1f"]
    ELSE IF bytes = "b.txt" THEN [rest |-> "22f28ac2bc4f933d4cf989fd", head8 |-> "ce506ace"]
    ELSE [rest |-> "043844ffc41aac437e86b602", head8 |-> "d0e45878"]

\* os.path.basename
basename(filepath) == filepath.name

\* get_file_hash(filepath): the hash of the bytes, or of the base name when the
\* file cannot be read.
get_file_hash(filepath) ==
    IF BookBytes(filepath) # "absent" THEN md5_hexdigest(BookBytes(filepath))
    ELSE md5_hexdigest(basename(filepath))

\* DataStorage.get_book_id: f"{filename}_{file_hash[:8]}", as its pieces.
get_book_id(filepath) == <<basename(filepath), "_", get_file_hash(filepath).head8>>

-----------------------------------------------------------------------------
(* DataStorage: whole calls.  Each safe_json_save of a call succeeds or raises
   an error inside (ok); the call goes on either way. *)

Up == st_pc = "up" /\ calls < MaxWholeCalls

\* save_highlights / save_notes / save_bookmarks (book_id, records)
save_records(c, book_id, recs, ok) ==
    LET a == AllocList(heap, recs)
        data == [storage_data EXCEPT ![c] = DictSet(@, book_id, a.refs)] IN
    /\ Up
    /\ storage_data' = data
    /\ heap' = [r \in StorageRefs(data) |-> a.heap[r]]
    /\ fs' = safe_json_save(fs, Path(c), DerefDict(a.heap, data[c]), ok)
    /\ ret' = [op |-> "save", value |-> ok]
    /\ before' = Snapshot
    /\ calls' = calls + 1
    /\ UNCHANGED <<library_data, settings_data, st_pc, sv>>

\* delete_highlights / delete_notes / delete_bookmarks (book_id)
delete_records(c, book_id, ok) ==
    LET data == [storage_data EXCEPT ![c] = DictDel(@, book_id)] IN
    /\ Up
    /\ IF book_id \in DOMAIN storage_data[c]
       THEN /\ storage_data' = data
            /\ heap' = [r \in StorageRefs(data) |-> heap[r]]
            /\ fs' = safe_json_save(fs, Path(c), DerefDict(heap, data[c]), ok)
            /\ ret' = [op |-> "delete", value |-> ok]
       ELSE /\ ret' = [op |-> "delete", value |-> TRUE]
            /\ UNCHANGED <<storage_data, heap, fs>>
    /\ before' = Snapshot
    /\ calls' = calls + 1
    /\ UNCHANGED <<library_data, settings_data, st_pc, sv>>

\* add_book_to_library: book_info
book_info(book_id, filepath, now, metadata) ==
    [filepath |-> filepath, id |-> book_id, metadata |-> metadata,
     filename |-> basename(filepath), added_at |-> now, last_opened |-> None,
     reading_position |-> Pos("1", "0"), reading_progress |-> 0]

\* add_book_to_library(filepath, metadata=None)
add_book_to_library(filepath, now, ok) ==
    LET book_id == get_book_id(filepath)
        library == DictSet(library_data, book_id,
                           book_info(book_id, filepath, now, EmptyDict)) IN
    /\ Up
    /\ library_data' = library
    /\ fs' = safe_json_save(fs, Path("library"), library, ok)
    /\ ret' = [op |-> "add_book", value |-> ok]
    /\ before' = Snapshot
    /\ calls' = calls + 1
    /\ UNCHANGED <<storage_data, settings_data, heap, st_pc, sv>>

\* orphaned with the test turned round: the library's books are the ones deleted.
orphaned_inverted(collection_data, valid_book_ids) ==
    DOMAIN collection_data \cap valid_book_ids

\* The keys cleanup_orphaned_data deletes from one collection.
orphaned(collection_data, valid_book_ids) == DOMAIN collection_data \ valid_book_ids

\* The three safe_json_save calls that end cleanup_orphaned_data, in order.
RECURSIVE SaveAll(_, _, _, _)
SaveAll(files, cs, data, oks) ==
    IF cs = <<>> THEN files
    ELSE SaveAll(safe_json_save(files, Path(Head(cs)), data[Head(cs)], Head(cs) \in oks),
                 Tail(cs), data, oks)

\* cleanup_orphaned_data(): returns the number of entries deleted.
cleanup_orphaned_data(oks) ==
    LET valid_book_ids == DOMAIN library_data
        gone == [c \in Collections |-> orphaned(storage_data[c], valid_book_ids)]
        data == [c \in Collections |->
                    [k \in DOMAIN storage_data[c] \ gone[c] |-> storage_data[c][k]]] IN
    /\ Up
    /\ storage_data' = data
    /\ heap' = [r \in StorageRefs(data) |-> heap[r]]
    /\ fs' = SaveAll(fs, CollectionOrder,
                     [c \in Collections |-> DerefDict(heap, data[c])], oks)
    /\ ret' = [op |-> "cleanup",
               value |-> Cardinality(gone["highlights"]) + Cardinality(gone["notes"])
                         + Cardinality(gone["bookmarks"])]
    /\ before' = Snapshot
    /\ calls' = calls + 1
    /\ UNCHANGED <<library_data, settings_data, st_pc, sv>>

\* The three dicts after a cascade that reaches the highlights only.
cascade_highlights_only(data, book_id) ==
    [c \in Collections |->
        IF c = "highlights" THEN DictDel(data[c], book_id) ELSE data[c]]

\* The three dicts after delete_highlights, delete_notes and delete_bookmarks
\* of one book ID.
cascade(data, book_id) == [c \in Collections |-> DictDel(data[c], book_id)]

\* The safe_json_save calls of the three deletes, in order: a collection is
\* saved when it held the book ID (had).
RECURSIVE DeleteAll(_, _, _, _, _)
DeleteAll(files, cs, data, had, oks) ==
    IF cs = <<>> THEN files
    ELSE DeleteAll(IF Head(cs) \in had
                   THEN safe_json_save(files, Path(Head(cs)), data[Head(cs)],
                                       Head(cs) \in oks)
                   ELSE files,
                   Tail(cs), data, had, oks)

\* remove_book_from_library(book_id): the library entry goes and the library
\* is saved, when there is one; then the three deletes; True.
remove_book_from_library(book_id, oks) ==
    LET library == DictDel(library_data, book_id)
        data == cascade(storage_data, book_id)
        had == {c \in Collections : book_id \in DOMAIN storage_data[c]}
        files == IF book_id \in DOMAIN library_data
                 THEN safe_json_save(fs, Path("library"), library, "library" \in oks)
                 ELSE fs IN
    /\ Up
    /\ library_data' = library
    /\ storage_data' = data
    /\ heap' = [r \in StorageRefs(data) |-> heap[r]]
    /\ fs' = DeleteAll(files, CollectionOrder,
                       [c \in Collections |-> DerefDict(heap, data[c])], had, oks)
    /\ ret' = [op |-> "remove_book", value |-> TRUE]
    /\ op' = [c |-> "none", name |-> "remove_book", value |-> TRUE, key |-> book_id,
              id |-> ""]
    /\ before' = Snapshot
    /\ calls' = calls + 1
    /\ UNCHANGED <<settings_data, st_pc, sv, managerVars>>

-----------------------------------------------------------------------------
(* DataStorage used by a host: the data directory holds what earlier runs
   wrote, the process starts and calls the methods. *)

StorageBookIds == {get_book_id(BookA), get_book_id(BookB)}

\* The dicts of a collection's file: any of the books, each with one record.
WrittenDicts(c) ==
    {[k \in ks |-> <<SampleRecord(c)>>] : ks \in SUBSET StorageBookIds}

WrittenLibraries ==
    {[k \in DOMAIN ps |-> book_info(k, ps[k], "t0", EmptyDict)] :
        ps \in {[k \in {get_book_id(q) : q \in qs} |->
                    CHOOSE q \in qs : get_book_id(q) = k] :
                qs \in SUBSET {BookA, BookB}}}

InitStorage ==
    /\ ViewerInit
    /\ lines_per_page = DefaultLinesPerPage
    /\ source = NoContent
    /\ \E h \in WrittenDicts("highlights"), n \in WrittenDicts("notes"),
          b \in WrittenDicts("bookmarks"), l \in WrittenLibraries :
          fs = [p \in Paths |->
                   IF p.tmp \/ p.name = "settings" THEN Missing
                   ELSE IF p.name = "highlights" THEN FileOf(json_dump(p.name, h))
                   ELSE IF p.name = "notes" THEN FileOf(json_dump(p.name, n))
                   ELSE IF p.name = "bookmarks" THEN FileOf(json_dump(p.name, b))
                   ELSE FileOf(json_dump(p.name, l))]
    /\ MemoryOff
    /\ AppOff

OkSets == {Collections} \cup {Collections \ {c} : c \in Collections}

NextStorage ==
    \/ storage_init /\ UNCHANGED <<viewerVars, appVars>>
    \/ \E c \in Collections, b \in StorageBookIds, ok \in BOOLEAN :
           \E recs \in SampleLists(c) :
               save_records(c, b, recs, ok) /\ UNCHANGED <<viewerVars, appVars>>
    \/ \E c \in Collections, b \in StorageBookIds, ok \in BOOLEAN :
           delete_records(c, b, ok) /\ UNCHANGED <<viewerVars, appVars>>
    \/ \E f \in {BookA, BookB}, ok \in BOOLEAN :
           add_book_to_library(f, "t1", ok) /\ UNCHANGED <<viewerVars, appVars>>
    \/ \E oks \in OkSets : cleanup_orphaned_data(oks) /\ UNCHANGED <<viewerVars, appVars>>
    \/ \E b \in StorageBookIds, oks \in SUBSET ({"library"} \cup Collections) :
           remove_book_from_library(b, oks) /\ UNCHANGED viewerVars

SpecStorage == InitStorage /\ [][NextStorage]_vars

-----------------------------------------------------------------------------
(* Properties of the persistence layer. *)

Readable(file) == file.exists /\ Parses(file.text)

\* C1: whatever step of safe_json_save the process dies at (or an error is
\* raised at), the real file of the collection holds either all of what it held
\* when save was called or all of the new document, never a part of one.
C1_SaveIsAtomic ==
    sv.pc # "none" =>
        /\ fs[sv.path] \in {sv.old, FileOf(sv.chunks)}
        /\ fs[sv.path] # sv.old => Readable(fs[sv.path])

\* C1 witness: the process died while the new document was half written to the
\* temporary file; the real file still holds the old, different contents.
C1_Witness ==
    /\ sv.pc = "crashed" /\ sv.at = "dump"
    /\ Len(fs[temp_filepath(sv.path)].text) \in 1..(Len(sv.chunks) - 1)
    /\ fs[sv.path] = sv.old
    /\ Readable(sv.old)
    /\ sv.old # FileOf(sv.chunks)

\* C6: loading never raises (the process never dies starting); a collection
\* whose file is missing or does not parse is loaded as the default, any other
\* as the parsed contents of its file.
C6_LoadNeverRaises ==
    /\ st_pc # "failed"
    /\ ret.op = "init" =>
          \A c \in Collections :
              DerefDict(heap, storage_data[c]) =
                  IF Readable(fs[Path(c)]) THEN json_load(c, fs[Path(c)].text)
                  ELSE EmptyDict
    /\ ret.op = "init" =>
          /\ library_data = IF Readable(fs[Path("library")])
                            THEN json_load("library", fs[Path("library")].text)
                            ELSE EmptyDict
          /\ settings_data = IF Readable(fs[Path("settings")])
                             THEN json_load("settings", fs[Path("settings")].text)
                             ELSE EmptyDict

\* C6 witness: a start that found one file damaged (loaded as the default) and
\* another holding records (loaded as they are).
C6_Witness ==
    /\ ret.op = "init" /\ st_pc = "up"
    /\ \E c \in Collections : fs[Path(c)].exists /\ ~Parses(fs[Path(c)].text)
    /\ \E c \in Collections, b \in SampleBookIds :
          /\ b \in DOMAIN storage_data[c]
          /\ Deref(heap, storage_data[c][b]) = <<SampleRecord(c)>>

\* The number of entries of the three collections whose book is not in the
\* library, in the dicts as they were before the call.
OrphansBefore ==
    Cardinality({<<c, k>> \in Collections \X StorageBookIds :
                    k \in DOMAIN before.data[c] /\ k \notin DOMAIN before.library})

\* C5: the cleanup sweep removes from highlights, notes and bookmarks exactly
\* the entries whose book ID is not in the library, leaves the other entries and
\* the library (in memory and on disk) as they were, and returns the number of
\* entries removed; each collection's file then holds the cleaned dict unless
\* its write failed.
C5_CleanupRemovesOrphans ==
    ret.op = "cleanup" =>
        /\ \A c \in Collections :
              /\ DOMAIN storage_data[c] =
                     DOMAIN before.data[c] \cap DOMAIN before.library
              /\ \A k \in DOMAIN storage_data[c] :
                     Deref(heap, storage_data[c][k]) = before.data[c][k]
              /\ fs[Path(c)] \in
                     {before.files[Path(c)],
                      FileOf(json_dump(c, DerefDict(heap, storage_data[c])))}
        /\ library_data = before.library
        /\ fs[Path("library")] = before.files[Path("library")]
        /\ ret.value = OrphansBefore

\* C5 witness: the library held only A, highlights held A and B and nothing
\* else was orphaned; the sweep removed B's entry, on disk too, and returned 1.
C5_Witness ==
    /\ ret.op = "cleanup" /\ ret.value = 1
    /\ DOMAIN before.library = {get_book_id(BookA)}
    /\ DOMAIN before.data["highlights"] = {get_book_id(BookA), get_book_id(BookB)}
    /\ DOMAIN storage_data["highlights"] = {get_book_id(BookA)}
    /\ Readable(fs[Path("highlights")])
    /\ DOMAIN json_load("highlights", fs[Path("highlights")].text)
           = {get_book_id(BookA)}

-----------------------------------------------------------------------------
(* The paginator on its own: any document, any page request. *)

InitPages ==
    /\ ViewerInit
    /\ StorageOff
    /\ AppOff
    /\ lines_per_page \in LinesPerPageChoices
    /\ source \in Docs

NextPages ==
    \/ display_content(source) /\ UNCHANGED <<font, storageVars, appVars>>
    \/ \E n \in -1..(Len(pages) + 1) : display_page(n) /\ UNCHANGED <<storageVars, appVars>>
    \/ next_page /\ UNCHANGED <<storageVars, appVars>>
    \/ previous_page /\ UNCHANGED <<storageVars, appVars>>

SpecPages == InitPages /\ [][NextPages]_vars

-----------------------------------------------------------------------------
(* The viewer over a session: documents loaded one after another, pages    *)
(* turned, and the font settings changed in between.                       *)

\* The documents the host hands over in a session.
SessionDocs == {d \in Docs : Len(d.content) <= MaxSessionLen}

FontSizes == {12, 16}

FontFamilies == {"Georgia", "Arial"}

LineSpacings == {12, 16}

InitViewer ==
    /\ ViewerInit
    /\ StorageOff
    /\ AppOff
    /\ lines_per_page \in LinesPerPageChoices
    /\ source = NoContent

NextViewer ==
    \/ \E d \in SessionDocs :
           display_content(d) /\ UNCHANGED <<font, storageVars, appVars>>
    \/ \E n \in -1..(Len(pages) + 1) : display_page(n) /\ UNCHANGED <<storageVars, appVars>>
    \/ next_page /\ UNCHANGED <<storageVars, appVars>>
    \/ previous_page /\ UNCHANGED <<storageVars, appVars>>
    \/ \E size \in FontSizes : set_font_size(size) /\ UNCHANGED <<storageVars, appVars>>
    \/ \E family \in FontFamilies :
           set_font_family(family) /\ UNCHANGED <<storageVars, appVars>>
    \/ \E spacing \in LineSpacings :
           set_line_spacing(spacing) /\ UNCHANGED <<storageVars, appVars>>

SpecViewer == InitViewer /\ [][NextViewer]_vars

-----------------------------------------------------------------------------
(* Properties of the paginator. *)

\* The non-blank paragraphs of a text, each without its surrounding white space.
RECURSIVE NonBlank(_)
NonBlank(ps) ==
    IF ps = <<>> THEN <<>>
    ELSE (IF strip(Head(ps)) = <<>> THEN <<>> ELSE <<strip(Head(ps))>>)
         \o NonBlank(Tail(ps))

Paragraphs(text) == NonBlank(re_split(text))

\* The paragraphs of all pages, in page order.
RECURSIVE PagesParagraphs(_)
PagesParagraphs(pgs) ==
    IF pgs = <<>> THEN <<>>
    ELSE Paragraphs(Head(pgs)) \o PagesParagraphs(Tail(pgs))

Displayed == current_content.loaded

\* C7 as claimed: for ANY displayed document the paragraphs of the pages, in
\* page order, are the document's non-blank paragraphs, once each, in order
\* and whole.
C7_PagesReproduceParagraphs ==
    Displayed =>
        PagesParagraphs(pages) = Paragraphs(full_text(current_content))

\* C7 amended: the same for every displayed document whose full text (title,
\* byline, content) is not empty; the empty document's one page holds the
\* placeholder text, which is no paragraph of the document.
C7_PagesReproduceParagraphsOfNonEmpty ==
    (Displayed /\ full_text(current_content) # <<>>) =>
        PagesParagraphs(pages) = Paragraphs(full_text(current_content))

\* C7 witness: a document of several paragraphs spread over several pages, one
\* page holding more than one paragraph.
C7_Witness ==
    /\ Displayed
    /\ Len(pages) >= 2
    /\ Len(Paragraphs(full_text(current_content))) > Len(pages)
    /\ PagesParagraphs(pages) = Paragraphs(full_text(current_content))

C8_WitnessWhitespace ==
    /\ Displayed
    /\ full_text(current_content) # <<>>
    /\ Paragraphs(full_text(current_content)) = <<>>
    /\ Len(pages) = 1

IsNavigation == nav.op \in {"display_page", "next_page", "previous_page"}

\* C9: a navigation operation returns false exactly when its target page is
\* outside [0, page_count - 1] and then current_page is what it was; otherwise it
\* returns true and current_page is the target (next and previous: one away).
C9_NavigationResult ==
    IsNavigation =>
        /\ nav.ret = (nav.target \in 0..(Len(pages) - 1))
        /\ ~nav.ret => current_page = nav.before
        /\ nav.ret => current_page = nav.target
        /\ nav.op = "next_page" => nav.target = nav.before + 1
        /\ nav.op = "previous_page" => nav.target = nav.before - 1

\* C9 witness: with several pages, a request for page -1 was refused after the
\* reader had moved off the first page.
C9_Witness ==
    /\ nav.op = "display_page"
    /\ nav.target = -1
    /\ ~nav.ret
    /\ Len(pages) >= 2
    /\ current_page = 1

-----------------------------------------------------------------------------
(* The annotation managers.  A manager's dict ({id: record}) is a sequence of
   entries in insertion order; an entry holds the key and the reference of
   the record object. *)

\* The values str(uuid.uuid4()) can take, and one it never takes.
UUIDSeq == <<"u1", "u2", "u3">>

UUIDs == {UUIDSeq[i] : i \in 1..Len(UUIDSeq)}

NoSuchId == "u0"

\* uuid.uuid4() with a generator that can return an ID twice.
uuid4_repeating(used) == UUIDs

\* str(uuid.uuid4()): an ID that was never returned before (used).  The IDs are
\* opaque to the program, so one unused ID stands for all of them.
uuid4(used) ==
    {UUIDSeq[i] : i \in {i \in 1..Len(UUIDSeq) :
                            /\ UUIDSeq[i] \notin used
                            /\ \A j \in 1..(i - 1) : UUIDSeq[j] \in used}}

\* The values datetime.now().isoformat() can take.
Times == {"t1", "t2"}

Entry(id, ref) == [id |-> id, ref |-> ref]

\* d.keys()
Keys(entries) == {entries[i].id : i \in 1..Len(entries)}

\* list(d.values()), as references and as records
Refs(entries) == [i \in 1..Len(entries) |-> entries[i].ref]

Values(h, entries) == [i \in 1..Len(entries) |-> h[entries[i].ref]]

Range(seq) == {seq[i] : i \in 1..Len(seq)}

\* d[id] = record: a new key goes last, a known key keeps its place.
StorePut(entries, id, ref) ==
    IF id \in Keys(entries)
    THEN [i \in 1..Len(entries) |->
             IF entries[i].id = id THEN Entry(id, ref) ELSE entries[i]]
    ELSE Append(entries, Entry(id, ref))

\* del d[id] that deletes the oldest entry, whatever its key.
StoreDel_oldest(entries, id) == Tail(entries)

\* del d[id]
StoreDel(entries, id) == SelectSeq(entries, LAMBDA e : e.id # id)

\* d[id], as the reference
StoreGet(entries, id) ==
    entries[CHOOSE i \in 1..Len(entries) : entries[i].id = id].ref

\* The references the managers hold.
StoreRefs(st) == UNION {Range(Refs(st[c])) : c \in Collections}

\* The objects still referenced by the storage or by a manager.
Collect(h, data, st) == [r \in StorageRefs(data) \cup StoreRefs(st) |-> h[r]]

\* A new object holding record.
New(h, record) ==
    [x \in DOMAIN h \cup {NewRef(h)} |-> IF x = NewRef(h) THEN record ELSE h[x]]

\* The managers' side of the memory, as one value.
Managers == [heap |-> heap, store |-> store, issued |-> issued, origin |-> origin]

\* self.<dict>[id] = record, with a record just built under the ID just generated.
Added(m, c, id, record) ==
    LET r == NewRef(m.heap) IN
    [heap |-> New(m.heap, record),
     store |-> [m.store EXCEPT ![c] = StorePut(@, id, r)],
     issued |-> m.issued \cup {id},
     origin |-> DictSet(m.origin, id, current_book_path)]

\* The managers' memory becomes m; objects nothing refers to any more go.
Commit(m) ==
    /\ store' = m.store
    /\ heap' = Collect(m.heap, storage_data, m.store)
    /\ issued' = m.issued
    /\ origin' = m.origin

OpOf(name, c, id, key, value) ==
    [c |-> c, name |-> name, value |-> value, key |-> key, id |-> id]

\* A change of a manager's dict ends the round trip under way for it.
Touched(c) == IF trip.c = c THEN [trip EXCEPT !.valid = FALSE] ELSE trip

\* The managers and the storage are there, and the host has calls left.
Host == st_pc = "up" /\ calls < MaxHostCalls

ManagerFrame ==
    /\ calls' = calls + 1
    /\ UNCHANGED <<fs, storage_data, library_data, settings_data, st_pc, sv, ret,
                   before, current_book_path, args>>

\* HighlightManager.add_highlight (self.text_viewer is never set: None)
add_highlight(start_index, end_index, text, color, now) ==
    \E highlight_id \in uuid4(issued) :
        /\ Host
        /\ Commit(Added(Managers, "highlights", highlight_id,
                        highlight_data(highlight_id, start_index, end_index, text,
                                       color, now)))
        /\ op' = OpOf("add", "highlights", highlight_id, <<>>, TRUE)
        /\ trip' = Touched("highlights")
        /\ ManagerFrame

\* NotesManager.add_note
add_note(position, text, note_type, now) ==
    \E note_id \in uuid4(issued) :
        /\ Host
        /\ Commit(Added(Managers, "notes", note_id,
                        note_data(note_id, position, text, note_type, now)))
        /\ op' = OpOf("add", "notes", note_id, <<>>, TRUE)
        /\ trip' = Touched("notes")
        /\ ManagerFrame

\* NotesManager.add_note_to_highlight
add_note_to_highlight(highlight_id, note_text, now) ==
    \E note_id \in uuid4(issued) :
        /\ Host
        /\ Commit(Added(Managers, "notes", note_id,
                        highlight_note_data(note_id, highlight_id, note_text, now)))
        /\ op' = OpOf("add", "notes", note_id, <<>>, TRUE)
        /\ trip' = Touched("notes")
        /\ ManagerFrame

\* title=None, as a title
NoTitle == <<None>>

\* BookmarkManager.add_bookmark: a missing or empty title becomes
\* f"Bookmark at {position}".
add_bookmark(position, title, note, now) ==
    \E bookmark_id \in uuid4(issued) :
        LET shown == IF title \in {NoTitle, <<>>}
                     THEN <<"Bookmark at ">> \o position ELSE title IN
        /\ Host
        /\ Commit(Added(Managers, "bookmarks", bookmark_id,
                        bookmark_data(bookmark_id, position, shown, note, now)))
        /\ op' = OpOf("add", "bookmarks", bookmark_id, <<>>, TRUE)
        /\ trip' = Touched("bookmarks")
        /\ ManagerFrame

\* remove_highlight / remove_note / remove_bookmark: what they share.
Remove(c, id) ==
    LET present == id \in Keys(store[c])
        st == IF present THEN [store EXCEPT ![c] = StoreDel(@, id)] ELSE store IN
    /\ Host
    /\ store' = st
    /\ heap' = Collect(heap, storage_data, st)
    /\ op' = OpOf("remove", c, id, <<>>, present)
    /\ trip' = IF present THEN Touched(c) ELSE trip
    /\ UNCHANGED <<issued, origin>>
    /\ ManagerFrame

\* remove_highlight that takes the notes of the highlight with it.
remove_highlight_with_notes(highlight_id) ==
    LET present == highlight_id \in Keys(store["highlights"])
        attached(e) == /\ "highlight_id" \in DOMAIN heap[e.ref]
                       /\ heap[e.ref].highlight_id = highlight_id
        st == IF present
              THEN [store EXCEPT !["highlights"] = StoreDel(@, highlight_id),
                                 !["notes"] = SelectSeq(@, LAMBDA e : ~attached(e))]
              ELSE store IN
    /\ Host
    /\ store' = st
    /\ heap' = Collect(heap, storage_data, st)
    /\ op' = OpOf("remove", "highlights", highlight_id, <<>>, present)
    /\ trip' = IF present THEN Touched("highlights") ELSE trip
    /\ UNCHANGED <<issued, origin>>
    /\ ManagerFrame

\* HighlightManager.remove_highlight
remove_highlight(highlight_id) == Remove("highlights", highlight_id)

\* NotesManager.remove_note
remove_note(note_id) == Remove("notes", note_id)

\* BookmarkManager.remove_bookmark
remove_bookmark(bookmark_id) == Remove("bookmarks", bookmark_id)

\* NotesManager.get_notes_for_highlight: the notes whose
\* note.get('highlight_id') is the ID, in the order of the dict.
get_notes_for_highlight(h, entries, highlight_id) ==
    SelectSeq(Values(h, entries),
              LAMBDA note : (IF "highlight_id" \in DOMAIN note THEN note.highlight_id
                             ELSE None) = highlight_id)

\* NotesManager.update_note: the record object itself is changed.
update_note(note_id, new_text, now) ==
    LET present == note_id \in Keys(store["notes"]) IN
    /\ Host
    /\ heap' = IF present
               THEN [heap EXCEPT ![StoreGet(store["notes"], note_id)] =
                        [@ EXCEPT !.text = new_text, !.modified_at = now]]
               ELSE heap
    /\ op' = OpOf("update", "notes", note_id, [text |-> new_text], present)
    /\ trip' = IF present THEN Touched("notes") ELSE trip
    /\ UNCHANGED <<store, issued, origin>>
    /\ ManagerFrame

\* The arguments of update_bookmark that are not None, by field.
Given(title, note) ==
    [f \in {x \in {"title"} : title # NoTitle} \cup {x \in {"note"} : note # None} |->
        IF f = "title" THEN title ELSE note]

\* BookmarkManager.update_bookmark(bookmark_id, title=None, note=None)
update_bookmark(bookmark_id, title, note) ==
    LET present == bookmark_id \in Keys(store["bookmarks"]) IN
    /\ Host
    /\ heap' = IF present
               THEN [heap EXCEPT ![StoreGet(store["bookmarks"], bookmark_id)] =
                        [@ EXCEPT !.title = IF title # NoTitle THEN title ELSE @,
                                  !.note = IF note # None THEN note ELSE @]]
               ELSE heap
    /\ op' = OpOf("update", "bookmarks", bookmark_id, Given(title, note), present)
    /\ trip' = IF present THEN Touched("bookmarks") ELSE trip
    /\ UNCHANGED <<store, issued, origin>>
    /\ ManagerFrame

\* update_highlight_color that recolours every highlight.
update_highlight_color_of_all(highlight_id, color) ==
    LET present == highlight_id \in Keys(store["highlights"]) IN
    /\ Host
    /\ heap' = IF present
               THEN [r \in DOMAIN heap |->
                        IF r \in Range(Refs(store["highlights"]))
                        THEN [heap[r] EXCEPT !.color = color] ELSE heap[r]]
               ELSE heap
    /\ op' = OpOf("update", "highlights", highlight_id, [color |-> color], present)
    /\ trip' = IF present THEN Touched("highlights") ELSE trip
    /\ UNCHANGED <<store, issued, origin>>
    /\ ManagerFrame

\* HighlightManager.update_highlight_color (self.text_viewer is never set)
update_highlight_color(highlight_id, color) ==
    LET present == highlight_id \in Keys(store["highlights"]) IN
    /\ Host
    /\ heap' = IF present
               THEN [heap EXCEPT ![StoreGet(store["highlights"], highlight_id)] =
                        [@ EXCEPT !.color = color]]
               ELSE heap
    /\ op' = OpOf("update", "highlights", highlight_id, [color |-> color], present)
    /\ trip' = IF present THEN Touched("highlights") ELSE trip
    /\ UNCHANGED <<store, issued, origin>>
    /\ ManagerFrame

-----------------------------------------------------------------------------
(* Positions ("line.char") and the order get_bookmarks returns. *)

Digits == <<"0", "1", "2", "3", "4", "5", "6", "7", "8", "9">>

IsDigit(ch) == \E d \in 1..Len(Digits) : Digits[d] = ch

DigitValue(ch) == (CHOOSE d \in 1..Len(Digits) : Digits[d] = ch) - 1

\* int(part) succeeds: the part is a run of digits, after a sign or not.
IsInt(part) ==
    LET digits == IF part # <<>> /\ part[1] \in {"-", "+"} THEN Tail(part) ELSE part IN
    digits # <<>> /\ \A i \in 1..Len(digits) : IsDigit(digits[i])

\* int(part)
RECURSIVE int(_)
int(part) ==
    IF part = <<>> THEN 0
    ELSE IF part[1] = "-" THEN -int(Tail(part))
    ELSE IF part[1] = "+" THEN int(Tail(part))
    ELSE int(SubSeq(part, 1, Len(part) - 1)) * 10 + DigitValue(part[Len(part)])

\* position.split('.')
RECURSIVE split(_)
split(position) ==
    IF \E i \in 1..Len(position) : position[i] = "."
    THEN LET i == CHOOSE i \in 1..Len(position) :
                      position[i] = "." /\ \A j \in 1..(i - 1) : position[j] # "."
         IN  <<SubSeq(position, 1, i - 1)>>
             \o split(SubSeq(position, i + 1, Len(position)))
    ELSE <<position>>

\* BookmarkManager._position_to_float, in thousandths:
\* line + char / 1000.0, and 0.0 when a part is not a number.
_position_to_float(position) ==
    LET parts == split(position) IN
    IF ~IsInt(parts[1]) THEN 0
    ELSE IF Len(parts) > 1
         THEN IF IsInt(parts[2]) THEN int(parts[1]) * 1000 + int(parts[2]) ELSE 0
         ELSE int(parts[1]) * 1000

\* sorted(bookmarks, key=...): stable, the references in ascending key order.
RECURSIVE sorted(_, _)
sorted(h, refs) ==
    IF refs = <<>> THEN <<>>
    ELSE LET key(r) == _position_to_float(h[r].position)
             rest == sorted(h, SubSeq(refs, 1, Len(refs) - 1))
             last == refs[Len(refs)]
             n == Cardinality({i \in 1..Len(rest) : key(rest[i]) <= key(last)})
         IN  SubSeq(rest, 1, n) \o <<last>> \o SubSeq(rest, n + 1, Len(rest))

\* BookmarkManager.get_bookmarks
get_bookmarks(h, entries) == sorted(h, Refs(entries))

\* get_highlights(), get_notes(), get_bookmarks(): the list the host saves.
get_all(h, st, c) ==
    IF c = "bookmarks" THEN get_bookmarks(h, st[c]) ELSE Refs(st[c])

\* load_highlights / load_notes / load_bookmarks of a manager: the dict is
\* rebuilt from the list, each record under its own 'id'.
RECURSIVE LoadEntries(_, _, _)
LoadEntries(h, refs, entries) ==
    IF refs = <<>> THEN entries
    ELSE LoadEntries(h, Tail(refs), StorePut(entries, h[Head(refs)].id, Head(refs)))

\* DataStorage.load_highlights / load_notes / load_bookmarks: the stored list.
storage_load(data, c, book_id) == DictGet(data[c], book_id, <<>>)

\* load_highlights / load_notes / load_bookmarks of a manager on a list that
\* may hold a record without 'id': record['id'] raises KeyError there, and the
\* dict keeps the records before it.
RECURSIVE LoadLoop(_, _, _)
LoadLoop(h, refs, entries) ==
    IF refs = <<>> THEN [entries |-> entries, raised |-> FALSE]
    ELSE IF "id" \notin DOMAIN h[Head(refs)] THEN [entries |-> entries, raised |-> TRUE]
    ELSE LoadLoop(h, Tail(refs), StorePut(entries, h[Head(refs)].id, Head(refs)))

\* load_book_data(filepath) from the collection Head(cs) on: each manager in
\* turn is emptied and loaded with the list the storage holds; an error in one
\* leaves the managers after it as they were.
RECURSIVE load_book_data(_, _, _, _, _)
load_book_data(h, data, st, cs, book_id) ==
    IF cs = <<>> THEN [store |-> st, raised |-> FALSE, at |-> "none"]
    ELSE LET r == LoadLoop(h, storage_load(data, Head(cs), book_id), <<>>) IN
         IF r.raised
         THEN [store |-> [st EXCEPT ![Head(cs)] = r.entries], raised |-> TRUE,
               at |-> Head(cs)]
         ELSE load_book_data(h, data, [st EXCEPT ![Head(cs)] = r.entries], Tail(cs),
                             book_id)

\* load_book_data for one collection: manager.load_X(storage.load_X(book_id))
load(c, book_id) ==
    LET st == [store EXCEPT ![c] =
                  LoadEntries(heap, storage_load(storage_data, c, book_id), <<>>)] IN
    /\ Host
    /\ store' = st
    /\ heap' = Collect(heap, storage_data, st)
    /\ op' = OpOf("load", c, "", book_id, TRUE)
    /\ UNCHANGED <<issued, origin, trip>>
    /\ ManagerFrame

\* on_closing for one collection: storage.save_X(book_id, manager.get_X())
save(c, book_id, ok) ==
    LET refs == get_all(heap, store, c)
        data == [storage_data EXCEPT ![c] = DictSet(@, book_id, refs)] IN
    /\ Host
    /\ storage_data' = data
    /\ heap' = Collect(heap, data, store)
    /\ fs' = safe_json_save(fs, Path(c), DerefDict(heap, data[c]), ok)
    /\ op' = OpOf("save", c, "", book_id, ok)
    /\ trip' = [c |-> c, recs |-> Range(Deref(heap, refs)), key |-> book_id,
                valid |-> ok, fresh |-> FALSE]
    /\ calls' = calls + 1
    /\ UNCHANGED <<store, issued, origin, current_book_path, args, library_data,
                   settings_data, st_pc, sv, ret, before>>

\* BookReaderApp.__init__, the managers' part: a DataStorage that reads the
\* files, and three managers with empty dicts.
managers_init ==
    /\ storage_init
    /\ store' = NoStore
    /\ current_book_path' = NoPath
    /\ op' = OpOf("init", "none", "", <<>>, TRUE)
    /\ trip' = [trip EXCEPT !.fresh = TRUE]
    /\ UNCHANGED <<issued, origin, args>>

\* The process ends without saving: its memory is gone, the files stay.
exit ==
    /\ Host
    /\ calls' = calls + 1
    /\ st_pc' = "off"
    /\ storage_data' = NoData
    /\ library_data' = EmptyDict
    /\ settings_data' = EmptyDict
    /\ heap' = EmptyHeap
    /\ store' = NoStore
    /\ current_book_path' = NoPath
    /\ op' = OpOf("exit", "none", "", <<>>, TRUE)
    /\ UNCHANGED <<fs, sv, ret, before, issued, origin, trip, args>>

-----------------------------------------------------------------------------
(* The three managers over one DataStorage: a host that adds, removes,
   updates, saves under a book ID and loads a book ID, in any order, and a
   process that ends and starts again. *)

StoreBookIds == {<<"a.txt">>, <<"b.txt">>}

InitStore ==
    /\ ViewerInit
    /\ lines_per_page = DefaultLinesPerPage
    /\ source = NoContent
    /\ StorageOff
    /\ AppOff

\* The IDs a host passes: those of the dict, and one that is not there.
Known(c) == Keys(store[c]) \cup {NoSuchId}

NextStore ==
    \/ managers_init /\ UNCHANGED viewerVars
    \/ exit /\ UNCHANGED viewerVars
    \/ add_highlight(Pos("1", "0"), Pos("1", "5"), "foo", "yellow", "t1")
       /\ UNCHANGED viewerVars
    \/ add_note(Pos("2", "0"), "bar", "margin", "t1") /\ UNCHANGED viewerVars
    \/ \E h \in Known("highlights") :
           add_note_to_highlight(h, "baz", "t1") /\ UNCHANGED viewerVars
    \/ \E b \in {<<Pos("3", "0"), NoTitle>>, <<Pos("1", "0"), <<"Title">>>>} :
           add_bookmark(b[1], b[2], None, "t1") /\ UNCHANGED viewerVars
    \/ \E id \in Known("highlights") : remove_highlight(id) /\ UNCHANGED viewerVars
    \/ \E id \in Known("notes") : remove_note(id) /\ UNCHANGED viewerVars
    \/ \E id \in Known("bookmarks") : remove_bookmark(id) /\ UNCHANGED viewerVars
    \/ \E id \in Known("notes") : update_note(id, "new", "t2") /\ UNCHANGED viewerVars
    \/ \E id \in Known("bookmarks"), u \in {<<NoTitle, "n">>, <<<<"New">>, None>>} :
           update_bookmark(id, u[1], u[2]) /\ UNCHANGED viewerVars
    \/ \E c \in Collections, b \in StoreBookIds :
           load(c, b) /\ UNCHANGED viewerVars
    \/ \E c \in Collections, b \in StoreBookIds, ok \in BOOLEAN :
           save(c, b, ok) /\ UNCHANGED viewerVars

SpecStore == InitStore /\ [][NextStore]_vars

-----------------------------------------------------------------------------
(* BookReaderApp: the host. *)

\* BookReaderApp.get_book_id
app_get_book_id(filepath) == <<basename(filepath)>>

\* The text a book file's bytes decode to.
BookText(bytes) == IF bytes = "alpha" THEN <<"a">> ELSE <<"b">>

\* FileManager.load_file with TextReader.read: a path that names no file
\* raises; a text file gives its base name as the title and its text.
load_file(filepath) ==
    IF BookBytes(filepath) = "absent"
    THEN [content |-> NoContent, raised |-> TRUE]
    ELSE [content |-> [title |-> <<"T">>, author |-> <<>>,
                       content |-> BookText(BookBytes(filepath)), loaded |-> TRUE],
          raised |-> FALSE]

\* BookReaderApp.__init__: the storage, the managers, the viewer; no book.
app_init ==
    /\ managers_init
    /\ pages' = <<>>
    /\ current_page' = 0
    /\ current_content' = NoContent
    /\ nav' = NoNav
    /\ UNCHANGED <<lines_per_page, source, font>>

\* load_book(filepath), with load_book_data: an error of load_file is caught
\* and shown; otherwise the book becomes the current one, is displayed, and
\* the three managers are loaded with what the storage holds under its ID.  An
\* error in load_book_data is caught and shown as well, after the steps
\* before it were taken.
load_book(filepath) ==
    LET r == load_file(filepath)
        book_id == app_get_book_id(filepath)
        d == load_book_data(heap, storage_data, store, CollectionOrder, book_id) IN
    /\ Host
    /\ calls' = calls + 1
    /\ IF r.raised
       THEN /\ op' = OpOf("load_book", "none", "", book_id, FALSE)
            /\ UNCHANGED <<viewerVars, store, heap, current_book_path>>
       ELSE /\ current_book_path' = filepath
            /\ display_content(r.content)
            /\ UNCHANGED font
            /\ store' = d.store
            /\ heap' = Collect(heap, storage_data, d.store)
            /\ op' = OpOf("load_book", d.at, "", book_id, ~d.raised)
    /\ UNCHANGED <<fs, storage_data, library_data, settings_data, st_pc, sv, ret,
                   before, issued, origin, trip, args>>

\* ReadingArea.add_note with text selected: a highlight on the selection, then
\* a note on that highlight.
add_note_to_selection(start_index, end_index, selected_text, note_text, now) ==
    /\ Host
    /\ \E highlight_id \in uuid4(issued) :
           LET m == Added(Managers, "highlights", highlight_id,
                          highlight_data(highlight_id, start_index, end_index,
                                         selected_text, "yellow", now)) IN
           \E note_id \in uuid4(m.issued) :
               /\ Commit(Added(m, "notes", note_id,
                               highlight_note_data(note_id, highlight_id, note_text,
                                                   now)))
               /\ op' = OpOf("add_note", "notes", note_id, <<>>, TRUE)
    /\ trip' = [trip EXCEPT !.valid = @ /\ trip.c = "bookmarks"]
    /\ ManagerFrame

\* DataStorage.save_settings: the dict after update() and the time stamp.
save_settings(settings, now) ==
    [k \in DOMAIN settings_data \cup DOMAIN settings \cup {"last_updated"} |->
        IF k = "last_updated" THEN now
        ELSE IF k \in DOMAIN settings THEN settings[k] ELSE settings_data[k]]

\* The files whose write succeeds in one on_closing.
CloseOks ==
    {FileNames \ {"library"}} \cup {FileNames \ {"library", x} : x \in FileNames}

\* on_closing: with a current book, what the three managers hold is saved
\* under its ID; the settings are saved; the window is destroyed and the
\* process ends.
on_closing(oks, now) ==
    LET book_id == app_get_book_id(current_book_path)
        data == IF current_book_path # NoPath
                THEN [c \in Collections |->
                         DictSet(storage_data[c], book_id, get_all(heap, store, c))]
                ELSE storage_data
        saved == IF current_book_path # NoPath
                 THEN SaveAll(fs, CollectionOrder,
                              [c \in Collections |-> DerefDict(heap, data[c])], oks)
                 ELSE fs
        settings == save_settings([theme |-> "light", window_geometry |-> "1400x900"],
                                  now) IN
    /\ Host
    /\ calls' = calls + 1
    /\ fs' = safe_json_save(saved, Path("settings"), settings, "settings" \in oks)
    /\ st_pc' = "off"
    /\ storage_data' = NoData
    /\ library_data' = EmptyDict
    /\ settings_data' = EmptyDict
    /\ heap' = EmptyHeap
    /\ store' = NoStore
    /\ current_book_path' = NoPath
    /\ pages' = <<>>
    /\ current_page' = 0
    /\ current_content' = NoContent
    /\ nav' = NoNav
    /\ op' = OpOf("on_closing", "none", "", book_id, TRUE)
    /\ UNCHANGED <<lines_per_page, source, font, sv, ret, before, issued, origin,
                   trip, args>>

-----------------------------------------------------------------------------
(* The application: it starts on an empty data directory, the user opens
   book files, annotates, closes the window, and starts it again. *)

NextApp ==
    \/ app_init
    \/ \E filepath \in BookPaths : load_book(filepath)
    \/ add_highlight(Pos("1", "0"), Pos("1", "5"), "foo", "yellow", "t1")
       /\ UNCHANGED viewerVars
    \/ add_note(Pos("1", "0"), "bar", "margin", "t1") /\ UNCHANGED viewerVars
    \/ add_note_to_selection(Pos("1", "0"), Pos("1", "5"), "foo", "baz", "t1")
       /\ UNCHANGED viewerVars
    \/ add_bookmark(Pos("1", "0"), <<"Title">>, None, "t1") /\ UNCHANGED viewerVars
    \/ \E oks \in CloseOks : on_closing(oks, "t2")

SpecApp == InitStore /\ [][NextApp]_vars

-----------------------------------------------------------------------------
(* The application on a data directory that earlier runs, an import or an
   editor wrote: the files hold records for a.txt and b.txt, and in some
   collections the list of b.txt holds a record without 'id' after a whole one. *)

\* A whole record of a collection as a file holds it, under an ID of its own.
StoredRecord(c, id) ==
    IF c = "highlights"
    THEN highlight_data(id, Pos("1", "0"), Pos("1", "5"), "foo", "yellow", "t0")
    ELSE IF c = "notes"
    THEN note_data(id, Pos("2", "0"), "bar", "margin", "t0")
    ELSE bookmark_data(id, Pos("3", "0"), <<"Title">>, None, "t0")

\* A record that lost its 'id'.
WithoutId(record) == [f \in DOMAIN record \ {"id"} |-> record[f]]

\* The dict of a collection's file; damaged says whether b.txt's list ends
\* with a record without 'id'.
StoredDict(c, damaged) ==
    [k \in {<<"a.txt">>, <<"b.txt">>} |->
        IF k = <<"a.txt">> THEN <<StoredRecord(c, "ka")>>
        ELSE IF damaged THEN <<StoredRecord(c, "kb"), WithoutId(StoredRecord(c, "kc"))>>
        ELSE <<StoredRecord(c, "kb")>>]

InitLoad ==
    /\ ViewerInit
    /\ lines_per_page = DefaultLinesPerPage
    /\ source = NoContent
    /\ \E damaged \in SUBSET Collections :
           fs = [p \in Paths |->
                    IF p.tmp \/ p.name \notin Collections THEN Missing
                    ELSE FileOf(json_dump(p.name, StoredDict(p.name, p.name \in damaged)))]
    /\ MemoryOff
    /\ AppOff

NextLoad ==
    \/ app_init
    \/ \E filepath \in BookPaths : load_book(filepath)
    \/ add_note(Pos("1", "0"), "bar", "margin", "t1") /\ UNCHANGED viewerVars
    \/ \E id \in Known("bookmarks") : remove_bookmark(id) /\ UNCHANGED viewerVars
    \/ \E oks \in CloseOks : on_closing(oks, "t2")

SpecLoad == InitLoad /\ [][NextLoad]_vars

-----------------------------------------------------------------------------
(* The queries of the managers.  A query returns a list of records, or
   raises; None is the empty list and a record is a list of one.  Numbers
   (floats) are counted in thousandths, which line + char / 1000.0 is a whole
   number of. *)

Returned(value) == [raised |-> "", value |-> value]

Raised(error) == [raised |-> error, value |-> <<>>]

\* The letters of the model, in their two cases.
UpperCase == <<"A", "B", "C", "D", "E", "F", "O", "P", "T", "U", "X">>

LowerCase == <<"a", "b", "c", "d", "e", "f", "o", "p", "t", "u", "x">>

\* str.lower() and str.upper() of a character, and str.lower() of a text
LowerOf(ch) ==
    IF \E i \in 1..Len(UpperCase) : UpperCase[i] = ch
    THEN LowerCase[CHOOSE i \in 1..Len(UpperCase) : UpperCase[i] = ch]
    ELSE ch

UpperOf(ch) ==
    IF \E i \in 1..Len(LowerCase) : LowerCase[i] = ch
    THEN UpperCase[CHOOSE i \in 1..Len(LowerCase) : LowerCase[i] = ch]
    ELSE ch

lower(text) == [i \in 1..Len(text) |-> LowerOf(text[i])]

\* needle in hay
Contains(hay, needle) ==
    \E i \in 0..(Len(hay) - Len(needle)) : SubSeq(hay, i + 1, i + Len(needle)) = needle

\* HighlightManager.search_highlights
search_highlights(h, entries, query) ==
    LET query_lower == lower(query) IN
    Returned(SelectSeq(Values(h, entries),
                       LAMBDA highlight : Contains(lower(highlight.text), query_lower)))

\* NotesManager.search_notes
search_notes(h, entries, query) ==
    LET query_lower == lower(query) IN
    Returned(SelectSeq(Values(h, entries),
                       LAMBDA note : Contains(lower(note.text), query_lower)))

\* BookmarkManager has no search method: looking one up raises.
search_bookmarks(h, entries, query) == Raised("AttributeError")

\* float(part) succeeds, and its value
IsFloat(part) == IsInt(part)

float(part) == int(part) * 1000

\* HighlightManager.get_highlights_by_position: the bounds are numbers and
\* only the line of an index is read; a line that is no number raises.
get_highlights_by_position(h, entries, start_pos, end_pos) ==
    LET highlights == Values(h, entries)
        h_start(highlight) == split(highlight.start_index)[1]
        h_end(highlight) == split(highlight.end_index)[1] IN
    IF \E i \in 1..Len(highlights) :
           ~IsFloat(h_start(highlights[i])) \/ ~IsFloat(h_end(highlights[i]))
    THEN Raised("ValueError")
    ELSE Returned(SelectSeq(highlights,
                            LAMBDA highlight :
                                /\ float(h_start(highlight)) <= end_pos
                                /\ float(h_end(highlight)) >= start_pos))

\* NotesManager.get_notes_by_position: notes without a position, and those
\* whose line is no number, are skipped.
get_notes_by_position(h, entries, start_pos, end_pos) ==
    Returned(SelectSeq(Values(h, entries),
                       LAMBDA note :
                           /\ "position" \in DOMAIN note
                           /\ IsFloat(split(note.position)[1])
                           /\ start_pos <= float(split(note.position)[1])
                           /\ float(split(note.position)[1]) <= end_pos))

\* BookmarkManager.get_bookmarks_in_range: the bounds are positions.
get_bookmarks_in_range(h, entries, start_pos, end_pos) ==
    LET start_float == _position_to_float(start_pos)
        end_float == _position_to_float(end_pos)
        results == SelectSeq(Refs(entries),
                             LAMBDA r :
                                 /\ start_float <= _position_to_float(h[r].position)
                                 /\ _position_to_float(h[r].position) <= end_float) IN
    Returned(Deref(h, sorted(h, results)))

abs(x) == IF x < 0 THEN -x ELSE x

\* The loop of find_nearest_bookmark with <= for <: the last of the nearest wins.
RECURSIVE NearestLoop_last_wins(_, _, _, _, _)
NearestLoop_last_wins(bookmarks, i, current_pos, nearest, min_distance) ==
    IF i > Len(bookmarks) THEN nearest
    ELSE LET distance == abs(current_pos - _position_to_float(bookmarks[i].position)) IN
         IF nearest = <<>> \/ distance <= min_distance
         THEN NearestLoop_last_wins(bookmarks, i + 1, current_pos, <<bookmarks[i]>>,
                                    distance)
         ELSE NearestLoop_last_wins(bookmarks, i + 1, current_pos, nearest,
                                    min_distance)

\* The loop of find_nearest_bookmark from bookmark i on; nearest = <<>> is
\* None, with min_distance = float('inf').
RECURSIVE NearestLoop(_, _, _, _, _)
NearestLoop(bookmarks, i, current_pos, nearest, min_distance) ==
    IF i > Len(bookmarks) THEN nearest
    ELSE LET distance == abs(current_pos - _position_to_float(bookmarks[i].position)) IN
         IF nearest = <<>> \/ distance < min_distance
         THEN NearestLoop(bookmarks, i + 1, current_pos, <<bookmarks[i]>>, distance)
         ELSE NearestLoop(bookmarks, i + 1, current_pos, nearest, min_distance)

\* BookmarkManager.find_nearest_bookmark
find_nearest_bookmark(h, entries, position) ==
    IF entries = <<>> THEN Returned(<<>>)
    ELSE Returned(NearestLoop(Values(h, entries), 1, _position_to_float(position),
                              <<>>, 0))

\* A host asks a manager: nothing changes but the record of the call.
Ask(name, c, given, result) ==
    /\ Host
    /\ op' = OpOf(name, c, "", given, result)
    /\ UNCHANGED <<store, heap, issued, origin, trip>>
    /\ ManagerFrame

-----------------------------------------------------------------------------
(* The managers queried: a host that adds records with texts in both letter
   cases and positions on several lines, updates them, and searches, filters
   by position and looks up the nearest bookmark. *)

\* The texts searched for.
Queries == {<<>>, <<"a", "b">>, <<"B">>, <<"b", "b">>}

\* The bounds of get_highlights_by_position and get_notes_by_position.
Ranges == {<<1000, 1000>>, <<1002, 1003>>, <<2000, 4000>>, <<0, 0>>}

\* The positions of bookmarks, and those passed to the bookmark queries.
P4 == Pos("4", "0")

P5 == Pos("5", "0")

P6 == Pos("6", "0")

P20 == <<"2", "0", ".", "0">>

BookmarkPositions == {P4, P6, P20}

PositionRanges == {<<P4, P5>>, <<P5, P20>>, <<P4, P20>>, <<P20, P4>>}

NextQuery ==
    \/ managers_init /\ UNCHANGED viewerVars
    \/ \E a \in {<<Pos("1", "0"), Pos("1", "5"), <<"A", "b">>>>,
                  <<Pos("2", "3"), Pos("4", "0"), <<"b", "a", "B">>>>} :
           /\ Len(store["highlights"]) < MaxRecords
           /\ add_highlight(a[1], a[2], a[3], "yellow", "t1")
           /\ UNCHANGED viewerVars
    \/ \E a \in {<<Pos("1", "5"), <<"a", "B">>>>, <<<<"x">>, <<"b">>>>} :
           /\ Len(store["notes"]) < MaxRecords
           /\ add_note(a[1], a[2], "margin", "t1")
           /\ UNCHANGED viewerVars
    \/ \E id \in Keys(store["highlights"]) :
           /\ Len(store["notes"]) < MaxRecords
           /\ add_note_to_highlight(id, <<"A">>, "t1")
           /\ UNCHANGED viewerVars
    \/ \E position \in BookmarkPositions :
           /\ Len(store["bookmarks"]) < MaxRecords
           /\ add_bookmark(position, NoTitle, None, "t1")
           /\ UNCHANGED viewerVars
    \/ \E id \in Known("notes") : update_note(id, <<"n">>, "t2") /\ UNCHANGED viewerVars
    \/ \E id \in Known("bookmarks"),
          u \in {<<NoTitle, "n">>, <<<<"New">>, None>>, <<<<"New">>, "n">>} :
           update_bookmark(id, u[1], u[2]) /\ UNCHANGED viewerVars
    \/ \E id \in Known("highlights") :
           update_highlight_color(id, "green") /\ UNCHANGED viewerVars
    \/ \E query \in Queries :
           /\ Ask("search", "highlights", query,
                  search_highlights(heap, store["highlights"], query))
           /\ UNCHANGED viewerVars
    \/ \E query \in Queries :
           /\ Ask("search", "notes", query, search_notes(heap, store["notes"], query))
           /\ UNCHANGED viewerVars
    \/ \E query \in Queries :
           /\ Ask("search", "bookmarks", query,
                  search_bookmarks(heap, store["bookmarks"], query))
           /\ UNCHANGED viewerVars
    \/ \E b \in Ranges :
           /\ Ask("by_position", "highlights", b,
                  get_highlights_by_position(heap, store["highlights"], b[1], b[2]))
           /\ UNCHANGED viewerVars
    \/ \E b \in Ranges :
           /\ Ask("by_position", "notes", b,
                  get_notes_by_position(heap, store["notes"], b[1], b[2]))
           /\ UNCHANGED viewerVars
    \/ \E b \in PositionRanges :
           /\ Ask("in_range", "bookmarks", b,
                  get_bookmarks_in_range(heap, store["bookmarks"], b[1], b[2]))
           /\ UNCHANGED viewerVars
    \/ \E position \in {P5, P20, <<>>} :
           /\ Ask("find_nearest", "bookmarks", position,
                  find_nearest_bookmark(heap, store["bookmarks"], position))
           /\ UNCHANGED viewerVars

SpecQuery == InitStore /\ [][NextQuery]_vars

-----------------------------------------------------------------------------
(* The position helpers, called on their own. *)

\* position is None
NoPosition == <<None>>

\* str(n)
RECURSIVE str(_)
str(n) ==
    IF n < 0 THEN <<"-">> \o str(-n)
    ELSE IF n < 10 THEN <<Digits[n + 1]>>
    ELSE str(n \div 10) \o <<Digits[(n % 10) + 1]>>

\* f"{line_num}.{char_pos}"
Position(line_num, char_pos) == str(line_num) \o <<".">> \o str(char_pos)

\* s.split(sep), sep one character
RECURSIVE str_split(_, _)
str_split(s, sep) ==
    IF \E i \in 1..Len(s) : s[i] = sep
    THEN LET i == CHOOSE i \in 1..Len(s) : s[i] = sep /\ \A j \in 1..(i - 1) : s[j] # sep
         IN  <<SubSeq(s, 1, i - 1)>> \o str_split(SubSeq(s, i + 1, Len(s)), sep)
    ELSE <<s>>

\* BookmarkManager._position_to_float as a caller sees it: None has no split,
\* and the AttributeError passes the except clause (ValueError, IndexError).
position_to_float(position) ==
    IF position = NoPosition THEN Raised("AttributeError")
    ELSE Returned(_position_to_float(position))

\* validate_position with >= for > in the test of the character offset: the
\* offset just past the last character of the line is refused.
validate_position_short(position, text) ==
    IF position = NoPosition THEN FALSE
    ELSE LET parts == split(position) IN
         IF Len(parts) # 2 \/ ~IsInt(parts[1]) \/ ~IsInt(parts[2]) THEN FALSE
         ELSE LET line_num == int(parts[1])
                  char_num == int(parts[2])
                  lines == str_split(text, "NL") IN
              IF line_num < 1 \/ line_num > Len(lines) THEN FALSE
              ELSE IF char_num < 0 \/ char_num >= Len(lines[line_num]) THEN FALSE
              ELSE TRUE

\* validate_position: whatever goes wrong (None, not two parts, a part that
\* is no integer) is caught and gives False.
validate_position(position, text) ==
    IF position = NoPosition THEN FALSE
    ELSE LET parts == split(position) IN
         IF Len(parts) # 2 \/ ~IsInt(parts[1]) \/ ~IsInt(parts[2]) THEN FALSE
         ELSE LET line_num == int(parts[1])
                  char_num == int(parts[2])
                  lines == str_split(text, "NL") IN
              IF line_num < 1 \/ line_num > Len(lines) THEN FALSE
              ELSE IF char_num < 0 \/ char_num > Len(lines[line_num]) THEN FALSE
              ELSE TRUE

\* line.find(search_text)
find(line, search_text) ==
    LET at == {i \in 0..(Len(line) - Len(search_text)) :
                  SubSeq(line, i + 1, i + Len(search_text)) = search_text} IN
    IF at = {} THEN -1 ELSE CHOOSE i \in at : \A j \in at : i <= j

\* lines[start:]: a negative start counts from the end.
slice_from(lines, start) ==
    LET from == IF start < 0 THEN Max(0, Len(lines) + start) ELSE start IN
    SubSeq(lines, from + 1, Len(lines))

\* The loop of find_text_position over enumerate(lines[start_line-1:], start_line).
RECURSIVE FindLoop(_, _, _, _)
FindLoop(rest, k, start_line, search_text) ==
    IF k > Len(rest) THEN <<>>
    ELSE LET line_num == start_line + k - 1
             char_pos == find(rest[k], search_text) IN
         IF char_pos # -1 THEN <<Position(line_num, char_pos)>>
         ELSE FindLoop(rest, k + 1, start_line, search_text)

\* find_text_position: a list of the position found, empty for None.
find_text_position(text, search_text, start_line) ==
    FindLoop(slice_from(str_split(text, "NL"), start_line - 1), 1, start_line,
             search_text)

-----------------------------------------------------------------------------
(* FileManager.load_file, by the path alone: which reader it hands the path
   to.  A path is a sequence of characters. *)

\* The last place of character ch in path p, 0 when there is none: p.rfind(ch) + 1
rfind(p, ch) ==
    IF \E i \in 1..Len(p) : p[i] = ch
    THEN CHOOSE i \in 1..Len(p) : p[i] = ch /\ \A j \in (i + 1)..Len(p) : p[j] # ch
    ELSE 0

\* os.path.splitext(p)[1]: from the last dot of the base name on, unless
\* only dots come before it in the base name.
splitext(p) ==
    LET sepIndex == rfind(p, "/")
        dotIndex == rfind(p, ".") IN
    IF dotIndex > sepIndex /\ \E i \in (sepIndex + 1)..(dotIndex - 1) : p[i] # "."
    THEN SubSeq(p, dotIndex, Len(p))
    ELSE <<>>

\* self.readers, and self.supported_formats = list(self.readers.keys())
readers ==
    [ext \in {<<".", "e", "p", "u", "b">>, <<".", "p", "d", "f">>,
              <<".", "t", "x", "t">>} |->
        IF ext = <<".", "e", "p", "u", "b">> THEN "EpubReader"
        ELSE IF ext = <<".", "p", "d", "f">> THEN "PdfReader"
        ELSE "TextReader"]

supported_formats == DOMAIN readers

\* load_file with the extension taken from the path as it is written.
dispatch_as_written(exists, filepath) ==
    IF ~exists THEN Raised("FileNotFoundError")
    ELSE LET ext == splitext(filepath) IN
         IF ext \notin supported_formats THEN Raised("ValueError")
         ELSE Returned(<<readers[ext]>>)

\* FileManager.load_file up to reader.read(filepath): the error raised, or the
\* reader whose read is called.  exists is os.path.exists(filepath).
dispatch(exists, filepath) ==
    IF ~exists THEN Raised("FileNotFoundError")
    ELSE LET ext == splitext(lower(filepath)) IN
         IF ext \notin supported_formats THEN Raised("ValueError")
         ELSE Returned(<<readers[ext]>>)

\* A text in every mix of letter cases.
RECURSIVE CaseVariants(_)
CaseVariants(t) ==
    IF t = <<>> THEN {<<>>}
    ELSE {<<ch>> \o rest : ch \in {LowerOf(t[1]), UpperOf(t[1])},
                           rest \in CaseVariants(Tail(t))}

\* The paths loaded: in the working directory or in a directory with a dot in
\* its name; a name with a stem or without; no extension, the three
\* supported ones and .docx in every mix of cases, and two double extensions.
LoaderPaths ==
    {dir \o stem \o ext :
        dir \in {<<>>, <<"/", "d", ".", "t", "x", "t", "/">>},
        stem \in {<<"a">>, <<>>},
        ext \in {<<>>, <<".", "t", "x", "t", ".", "b">>, <<".", "b", ".", "t", "x", "t">>}
                 \cup CaseVariants(<<".", "t", "x", "t">>)
                 \cup CaseVariants(<<".", "p", "d", "f">>)
                 \cup CaseVariants(<<".", "e", "p", "u", "b">>)
                 \cup CaseVariants(<<".", "d", "o", "c", "x">>)}

-----------------------------------------------------------------------------
(* TextReader.read: the bytes of the file are decoded with each encoding of a
   fixed list in turn.  A byte is a number 0..255 and a decoded text is the
   sequence of its code points.  The file is opened in text mode, so each
   decode is the incremental one of io.TextIOWrapper, on the whole file; the
   files of the model hold no carriage return, which is the only character
   the text mode translates. *)

\* The continuation bytes of utf-8
IsCont(b) == b >= 128 /\ b <= 191

\* codecs utf-8, strict: the code points, or UnicodeDecodeError.
RECURSIVE utf_8_loop(_, _, _)
utf_8_loop(bytes, i, out) ==
    IF i > Len(bytes) THEN Returned(out)
    ELSE LET b0 == bytes[i]
             b1 == IF i + 1 <= Len(bytes) THEN bytes[i + 1] ELSE 0
             b2 == IF i + 2 <= Len(bytes) THEN bytes[i + 2] ELSE 0
             b3 == IF i + 3 <= Len(bytes) THEN bytes[i + 3] ELSE 0 IN
         IF b0 < 128 THEN utf_8_loop(bytes, i + 1, Append(out, b0))
         ELSE IF b0 >= 194 /\ b0 <= 223 /\ IsCont(b1)
         THEN utf_8_loop(bytes, i + 2, Append(out, (b0 - 192) * 64 + (b1 - 128)))
         ELSE IF /\ b0 >= 224 /\ b0 <= 239
                 /\ IsCont(b1) /\ IsCont(b2)
                 /\ (b0 = 224 => b1 >= 160)
                 /\ (b0 = 237 => b1 <= 159)
         THEN utf_8_loop(bytes, i + 3,
                         Append(out, (b0 - 224) * 4096 + (b1 - 128) * 64 + (b2 - 128)))
         ELSE IF /\ b0 >= 240 /\ b0 <= 244
                 /\ IsCont(b1) /\ IsCont(b2) /\ IsCont(b3)
                 /\ (b0 = 240 => b1 >= 144)
                 /\ (b0 = 244 => b1 <= 143)
         THEN utf_8_loop(bytes, i + 4,
                         Append(out, (b0 - 240) * 262144 + (b1 - 128) * 4096
                                     + (b2 - 128) * 64 + (b3 - 128)))
         ELSE Raised("UnicodeDecodeError")

utf_8_decode(bytes) == utf_8_loop(bytes, 1, <<>>)

\* The 16-bit unit at bytes i and i + 1, in a byte order
Unit(bytes, i, byteorder) ==
    IF byteorder = "little" THEN bytes[i] + 256 * bytes[i + 1]
    ELSE 256 * bytes[i] + bytes[i + 1]

\* codecs utf_16_le_decode / utf_16_be_decode on the bytes from i on, final:
\* a half unit or a surrogate without its pair is a UnicodeDecodeError.
RECURSIVE utf_16_loop(_, _, _, _)
utf_16_loop(bytes, i, byteorder, out) ==
    IF i > Len(bytes) THEN Returned(out)
    ELSE IF i = Len(bytes) THEN Raised("UnicodeDecodeError")
    ELSE LET u == Unit(bytes, i, byteorder) IN
         IF u < 55296 \/ u > 57343
         THEN utf_16_loop(bytes, i + 2, byteorder, Append(out, u))
         ELSE IF u <= 56319 /\ i + 3 <= Len(bytes)
                 /\ Unit(bytes, i + 2, byteorder) >= 56320
                 /\ Unit(bytes, i + 2, byteorder) <= 57343
         THEN utf_16_loop(bytes, i + 4, byteorder,
                          Append(out, 65536 + (u - 55296) * 1024
                                      + (Unit(bytes, i + 2, byteorder) - 56320)))
         ELSE Raised("UnicodeDecodeError")

\* encodings.utf_16.IncrementalDecoder on the whole file: a byte order mark
\* gives the byte order and is dropped; without one the bytes are decoded in
\* the byte order of the machine and, when that decodes two bytes or more,
\* UnicodeError("UTF-16 stream does not start with BOM") is raised.
utf_16_decode(bytes, byteorder) ==
    IF Len(bytes) >= 2 /\ bytes[1] = 255 /\ bytes[2] = 254
    THEN utf_16_loop(bytes, 3, "little", <<>>)
    ELSE IF Len(bytes) >= 2 /\ bytes[1] = 254 /\ bytes[2] = 255
    THEN utf_16_loop(bytes, 3, "big", <<>>)
    ELSE LET r == utf_16_loop(bytes, 1, byteorder, <<>>) IN
         IF r.raised # "" THEN r
         ELSE IF Len(bytes) >= 2 THEN Raised("UnicodeError")
         ELSE r

\* codecs latin1: the code point of a byte is the byte.
latin1_decode(bytes) == Returned(bytes)

\* The bytes cp1252 gives no character to
Cp1252Undefined == {129, 141, 143, 144, 157}

\* The code points cp1252 gives to the bytes 128..159
Cp1252High ==
    <<8364, 0, 8218, 402, 8222, 8230, 8224, 8225, 710, 8240, 352, 8249, 338, 0, 381, 0,
      0, 8216, 8217, 8220, 8221, 8226, 8211, 8212, 732, 8482, 353, 8250, 339, 0, 382, 376>>

\* codecs cp1252, strict
cp1252_decode(bytes) ==
    IF \E i \in 1..Len(bytes) : bytes[i] \in Cp1252Undefined
    THEN Raised("UnicodeDecodeError")
    ELSE Returned([i \in 1..Len(bytes) |->
                      IF bytes[i] >= 128 /\ bytes[i] <= 159
                      THEN Cp1252High[bytes[i] - 127]
                      ELSE bytes[i]])

\* open(filepath, 'r', encoding=encoding).read()
decode(bytes, encoding, byteorder) ==
    IF encoding = "utf-8" THEN utf_8_decode(bytes)
    ELSE IF encoding = "utf-16" THEN utf_16_decode(bytes, byteorder)
    ELSE IF encoding = "latin1" THEN latin1_decode(bytes)
    ELSE cp1252_decode(bytes)

encodings == <<"utf-8", "utf-16", "latin1", "cp1252">>

\* The for loop of TextReader.read from encodings[k] on: the content of the
\* first decode that succeeds; a UnicodeDecodeError goes on to the next
\* encoding, any other error leaves the loop, and the end of the list is a
\* ValueError.
RECURSIVE EncodingLoop(_, _, _)
EncodingLoop(bytes, k, byteorder) ==
    IF k > Len(encodings) THEN Raised("ValueError")
    ELSE LET r == decode(bytes, encodings[k], byteorder) IN
         IF r.raised = "UnicodeDecodeError" THEN EncodingLoop(bytes, k + 1, byteorder)
         ELSE r

\* TextReader.read(filepath) on a file of these bytes: the content of the
\* dict returned, or the Exception every error inside is raised again as.
TextReader_read(bytes, byteorder) ==
    LET r == EncodingLoop(bytes, 1, byteorder) IN
    IF r.raised # "" THEN Raised("Exception") ELSE r

\* The bytes of the files read: a letter, the latin1 bytes of e-acute, the
\* copyright sign, A-tilde, O-stroke, y-diaeresis and thorn.
FileBytes == {97, 233, 169, 195, 216, 255, 254}

-----------------------------------------------------------------------------
(* The position helpers and the loader under every argument of a bounded
   set: the state starts with the arguments of one call, and the call is made. *)

\* Positions as they are stored, well formed and not.
CodecPositions ==
    {<<>>, <<"x">>, <<"5">>, <<".">>, <<"1", ".">>, <<".", "5">>,
     <<"1", ".", "x">>, <<"x", ".", "1">>, <<"1", ".", "2", ".", "3">>,
     <<"1", ".", "5">>, <<"0", ".", "0">>, <<"-", "1", ".", "5">>, NoPosition}

\* Lines and character offsets of valid positions.
CodecLines == {1, 2, 3}

CodecChars == {0, 5, 999, 1000, 1001}

\* All texts of at most n characters over an alphabet.
RECURSIVE TextsOver(_, _)
TextsOver(alphabet, n) ==
    IF n = 0 THEN {<<>>}
    ELSE LET shorter == TextsOver(alphabet, n - 1) IN
         shorter \cup {Append(t, ch) : t \in shorter, ch \in alphabet}

\* Positions checked against a text: lines 0..MaxTextLen + 1, offsets
\* 0..MaxTextLen + 1, and positions no text has.
ValidatedPositions ==
    {Position(l, c) : l \in 0..(MaxTextLen + 1), c \in 0..(MaxTextLen + 1)}
        \cup {<<>>, <<"1">>, <<"1", ".", "0", ".", "0">>, <<"x", ".", "0">>,
              <<"1", ".", "-", "1">>, <<"-", "1", ".", "0">>, <<"+", "1", ".", "0">>,
              NoPosition}

StartLines == (0 - 2)..(MaxTextLen + 1)

InitCodec ==
    /\ ViewerInit
    /\ lines_per_page = DefaultLinesPerPage
    /\ source = NoContent
    /\ StorageOff
    /\ store = NoStore
    /\ current_book_path = NoPath
    /\ issued = {}
    /\ origin = EmptyDict
    /\ op = NoOp
    /\ trip = NoTrip
    /\ \/ \E p \in CodecPositions : args = [kind |-> "position", position |-> p]
       \/ \E l1 \in CodecLines, c1 \in CodecChars, l2 \in CodecLines, c2 \in CodecChars :
              args = [kind |-> "pair", first |-> <<l1, c1>>, second |-> <<l2, c2>>]
       \/ \E p \in ValidatedPositions, t \in TextsOver({"a", "NL"}, MaxTextLen) :
              args = [text |-> t, kind |-> "validate", position |-> p]
       \/ \E t \in TextsOver({"a", "b", "NL"}, MaxTextLen),
             n \in {<<>>, <<"a">>, <<"b">>, <<"a", "b">>}, l \in StartLines :
              args = [text |-> t, kind |-> "find", search_text |-> n, start_line |-> l]
       \/ \E p \in LoaderPaths, e \in BOOLEAN :
              args = [exists |-> e, filepath |-> p, kind |-> "load"]
       \/ \E b \in TextsOver(FileBytes, MaxFileLen), o \in {"little", "big"} :
              args = [kind |-> "read", bytes |-> b, byteorder |-> o]

\* A helper is called once on the arguments and returns (or raises).
Apply(name, result) ==
    /\ op.name = "none"
    /\ op' = OpOf(name, "none", "", <<>>, result)
    /\ UNCHANGED <<viewerVars, storageVars, store, current_book_path, issued, origin,
                   trip, args>>

to_float ==
    /\ args.kind = "position"
    /\ Apply("_position_to_float", position_to_float(args.position))

to_float_pair ==
    /\ args.kind = "pair"
    /\ Apply("_position_to_float",
             <<_position_to_float(Position(args.first[1], args.first[2])),
               _position_to_float(Position(args.second[1], args.second[2]))>>)

validate ==
    /\ args.kind = "validate"
    /\ Apply("validate_position", validate_position(args.position, args.text))

find_text ==
    /\ args.kind = "find"
    /\ Apply("find_text_position",
             find_text_position(args.text, args.search_text, args.start_line))

load_file_of_path ==
    /\ args.kind = "load"
    /\ Apply("load_file", dispatch(args.exists, args.filepath))

read_text ==
    /\ args.kind = "read"
    /\ Apply("read", TextReader_read(args.bytes, args.byteorder))

NextCodec ==
    to_float \/ to_float_pair \/ validate \/ find_text \/ load_file_of_path \/ read_text

SpecCodec == InitCodec /\ [][NextCodec]_vars

-----------------------------------------------------------------------------
(* Properties of the annotation managers. *)

\* C10: add_highlight, add_note, add_note_to_highlight and add_bookmark return
\* an ID that was not a key of the manager's dict before the call, insert one
\* record under it (the last entry, holding that ID) and leave every other
\* entry and record of the three dicts as it was, whatever adds, removes,
\* updates, saves and loads came before; uuid4 is taken never to return an ID
\* twice.
C10_AddInsertsOneFreshRecord ==
    [][op'.name = "add" =>
          LET c == op'.c
              id == op'.id IN
          /\ id \notin Keys(store[c])
          /\ Len(store'[c]) = Len(store[c]) + 1
          /\ store'[c][Len(store'[c])].id = id
          /\ heap'[store'[c][Len(store'[c])].ref].id = id
          /\ \A i \in 1..Len(store[c]) :
                /\ store'[c][i].id = store[c][i].id
                /\ heap'[store'[c][i].ref] = heap[store[c][i].ref]
          /\ \A d \in Collections \ {c} :
                /\ [i \in 1..Len(store'[d]) |-> store'[d][i].id]
                       = [i \in 1..Len(store[d]) |-> store[d][i].id]
                /\ Values(heap', store'[d]) = Values(heap, store[d])]_vars

\* C10 witness: an add into a dict that holds a record loaded from the files in
\* a new session (its ID was generated in an earlier one).
C10_Witness ==
    /\ op.name = "add"
    /\ trip.fresh
    /\ \E i \in 1..Len(store[op.c]) :
          /\ store[op.c][i].id # op.id
          /\ store[op.c][i].ref \in StorageRefs(storage_data)

\* C4: when a manager's records are read out and saved under a book ID (the
\* save returning True) and that book ID is then loaded into the manager, in
\* the same session or in a new one that reads the files, with no change of
\* the manager's dict in between, the manager holds the same set of records:
\* the same IDs, each with the same field values.
C4_RoundTrip ==
    (op.name = "load" /\ trip.valid /\ trip.c = op.c /\ trip.key = op.key) =>
        /\ Range(Values(heap, store[op.c])) = trip.recs
        /\ Len(store[op.c]) = Cardinality(trip.recs)
        /\ Keys(store[op.c]) = {r.id : r \in trip.recs}

\* C4 witness: two bookmarks, the second added being the first by position and
\* both without a note (null in the file), saved, and loaded again in a new
\* session from the file.
C4_Witness ==
    /\ op.name = "load" /\ op.c = "bookmarks"
    /\ trip.valid /\ trip.fresh /\ trip.c = op.c /\ trip.key = op.key
    /\ Len(store["bookmarks"]) = 2
    /\ heap[store["bookmarks"][1].ref].id = UUIDSeq[2]
    /\ heap[store["bookmarks"][1].ref].note = None
    /\ Readable(fs[Path("bookmarks")])

-----------------------------------------------------------------------------
(* Properties of the host. *)

\* C2: when load_book replaces an open book A by another book file, what the
\* three managers held for A is persisted first: after the switch the storage
\* returns, under A's book ID, the records the managers held before it (so
\* they come back the next time A is loaded).
C2_SwitchPersistsOpenBook ==
    [][(/\ op'.name = "load_book" /\ op'.value
        /\ current_book_path # NoPath
        /\ current_book_path' # current_book_path) =>
          \A c \in Collections :
              Range(Deref(heap', storage_load(storage_data', c,
                                              app_get_book_id(current_book_path))))
                  = Range(Values(heap, store[c]))]_vars

\* Two paths name the same book: the same file name and the same contents.
SameBook(p, q) == basename(p) = basename(q) /\ BookBytes(p) = BookBytes(q)

\* C3: the highlights, notes and bookmarks are kept under a key made of the
\* file name and the hash of the contents, so the records a load_book puts in
\* the managers were all added to a book of the same name and contents as the
\* one loaded: a book never gets the annotations of another.
C3_NoAnnotationsOfAnotherBook ==
    (op.name = "load_book" /\ op.value) =>
        \A c \in Collections : \A i \in 1..Len(store[c]) :
            SameBook(origin[store[c][i].id], current_book_path)

-----------------------------------------------------------------------------
(* Properties of remove and update. *)

\* The keys of a manager's dict, in insertion order.
KeySeq(entries) == [i \in 1..Len(entries) |-> entries[i].id]

\* The dict without the key id: its keys in order and their records.
Without(h, entries, id) == Values(h, SelectSeq(entries, LAMBDA e : e.id # id))

\* C11: remove_highlight, remove_note and remove_bookmark return True exactly
\* when the ID was a key of the manager's dict; after the call the ID is not a
\* key, every other key is still there, in the same order and with the same
\* record, and the two other dicts are as they were; for an ID that was not a
\* key they return False and no dict and no record changes.
C11_RemoveResult ==
    [][op'.name = "remove" =>
          LET c == op'.c
              id == op'.id IN
          /\ op'.value = (id \in Keys(store[c]))
          /\ id \notin Keys(store'[c])
          /\ KeySeq(store'[c]) = SelectSeq(KeySeq(store[c]), LAMBDA k : k # id)
          /\ Values(heap', store'[c]) = Without(heap, store[c], id)
          /\ \A d \in Collections \ {c} :
                /\ KeySeq(store'[d]) = KeySeq(store[d])
                /\ Values(heap', store'[d]) = Values(heap, store[d])
          /\ ~op'.value => store' = store /\ heap' = heap]_vars

\* C11 witness: a remove that returned True and left another record, one that
\* was added before the removed one, in the same dict.
C11_Witness ==
    /\ op.name = "remove" /\ op.value
    /\ op.id = UUIDSeq[2]
    /\ \E i \in 1..Len(store[op.c]) : store[op.c][i].id = UUIDSeq[1]

\* C11 witness: a remove of an ID that is not a key, from a dict that holds a
\* record.
C11_WitnessAbsent ==
    /\ op.name = "remove" /\ ~op.value
    /\ store[op.c] # <<>>

\* The fields an update stamps without being given them.
Stamped(c) == IF c = "notes" THEN {"modified_at"} ELSE {}

\* C12: update_note, update_bookmark and update_highlight_color return True
\* exactly when the ID is a key of the manager's dict.  No dict gains, loses
\* or reorders a key.  Of the record under the ID, the fields given (a note's
\* text, a bookmark's title and note when not None, a highlight's colour) take
\* the values given, a note's modified_at may change, and every other field
\* (id, position, created_at, ...) keeps its value; every other record of the
\* three dicts is unchanged, and so is every record when the ID is not a key.
C12_UpdateResult ==
    [][op'.name = "update" =>
          LET c == op'.c
              id == op'.id
              given == op'.key IN
          /\ op'.value = (id \in Keys(store[c]))
          /\ store' = store
          /\ \A d \in Collections : \A i \in 1..Len(store[d]) :
                LET old == heap[store[d][i].ref]
                    new == heap'[store[d][i].ref] IN
                IF d = c /\ store[d][i].id = id
                THEN /\ DOMAIN new = DOMAIN old
                     /\ \A f \in DOMAIN old :
                           IF f \in DOMAIN given THEN new[f] = given[f]
                           ELSE f \notin Stamped(c) => new[f] = old[f]
                ELSE new = old]_vars

\* C12 witness: an update of a bookmark's title alone, in a dict that holds
\* another bookmark.
C12_Witness ==
    /\ op.name = "update" /\ op.value /\ op.c = "bookmarks"
    /\ DOMAIN op.key = {"title"}
    /\ Len(store["bookmarks"]) > 1

\* C12 witness: a highlight recoloured next to another highlight.
C12_WitnessColor ==
    /\ op.name = "update" /\ op.value /\ op.c = "highlights"
    /\ Len(store["highlights"]) > 1

\* C12 witness: an update under an ID that is not a key, with records there.
C12_WitnessAbsent ==
    /\ op.name = "update" /\ ~op.value
    /\ store[op.c] # <<>>

-----------------------------------------------------------------------------
(* Properties of the queries. *)

\* query occurs in text at some offset, letters compared without their case.
ContainsIgnoringCase(text, query) ==
    \E i \in 1..(Len(text) - Len(query) + 1) :
        \A j \in 1..Len(query) : UpperOf(text[i + j - 1]) = UpperOf(query[j])

\* The field a search looks at: a bookmark's title, a highlight's or note's text.
PrimaryText(c, record) == IF c = "bookmarks" THEN record.title ELSE record.text

\* What a search of dict c for query is to return: the records whose primary
\* text contains query, in insertion order.
Found(h, entries, c, query) ==
    Returned(SelectSeq(Values(h, entries),
                       LAMBDA record :
                           ContainsIgnoringCase(PrimaryText(c, record), query)))

\* C13: a search of the highlights, of the notes or of the bookmarks returns
\* (without raising) exactly the records of that dict whose primary text
\* contains the query as a substring ignoring case, in insertion order, and
\* changes no dict and no record.
C13_SearchResult ==
    [][op'.name = "search" =>
          /\ op'.value = Found(heap, store[op'.c], op'.c, op'.key)
          /\ store' = store
          /\ heap' = heap]_vars

\* The part of C13 about the highlights and the notes alone.
C13_SearchOfHighlightsAndNotes ==
    [][(op'.name = "search" /\ op'.c # "bookmarks") =>
          /\ op'.value = Found(heap, store[op'.c], op'.c, op'.key)
          /\ store' = store
          /\ heap' = heap]_vars

\* A record of dict c lies within the bounds, by the sortable form of its
\* position (for a highlight: of the two ends of its range).
InBounds(c, record, lo, hi) ==
    IF c = "highlights"
    THEN /\ _position_to_float(record.start_index) <= hi
         /\ _position_to_float(record.end_index) >= lo
    ELSE /\ "position" \in DOMAIN record
         /\ lo <= _position_to_float(record.position)
         /\ _position_to_float(record.position) <= hi

\* C14: get_bookmarks_in_range, get_highlights_by_position and
\* get_notes_by_position all select by the sortable form (_position_to_float:
\* line and character) of the stored positions: each returns, without
\* raising, the records of its dict whose sortable position lies within the
\* bounds (those of get_bookmarks_in_range being the sortable forms of the two
\* positions passed).
C14_RangeQueriesUseCodec ==
    op.name \in {"by_position", "in_range"} =>
        LET lo == IF op.name = "in_range" THEN _position_to_float(op.key[1])
                  ELSE op.key[1]
            hi == IF op.name = "in_range" THEN _position_to_float(op.key[2])
                  ELSE op.key[2]
            records == Range(Values(heap, store[op.c])) IN
        /\ op.value.raised = ""
        /\ Range(op.value.value) = {r \in records : InBounds(op.c, r, lo, hi)}

\* The part of C14 about get_bookmarks_in_range alone.
C14_BookmarksInRange ==
    op.name = "in_range" =>
        /\ op.value.raised = ""
        /\ Range(op.value.value) =
               {r \in Range(Values(heap, store[op.c])) :
                   InBounds(op.c, r, _position_to_float(op.key[1]),
                            _position_to_float(op.key[2]))}

\* C15: find_nearest_bookmark returns None exactly when the manager holds no
\* bookmark; otherwise it returns a bookmark of the manager whose distance
\* |sortable(position) - sortable(bookmark position)| is the least over all
\* bookmarks, and the earliest inserted of those at that distance.
C15_NearestBookmark ==
    op.name = "find_nearest" =>
        LET bookmarks == Values(heap, store["bookmarks"])
            distance(b) == abs(_position_to_float(op.key)
                                  - _position_to_float(b.position)) IN
        /\ op.value.raised = ""
        /\ (op.value.value = <<>>) = (bookmarks = <<>>)
        /\ bookmarks # <<>> =>
               \E i \in 1..Len(bookmarks) :
                   /\ op.value.value = <<bookmarks[i]>>
                   /\ \A j \in 1..Len(bookmarks) :
                          distance(bookmarks[i]) <= distance(bookmarks[j])
                   /\ \A j \in 1..(i - 1) :
                          distance(bookmarks[j]) > distance(bookmarks[i])

\* C15 witness: bookmarks at "4.0" and "20.0", in either order of insertion;
\* the nearest to "5.0" is the one at "4.0".
C15_Witness ==
    /\ op.name = "find_nearest" /\ op.key = P5
    /\ {b.position : b \in Range(Values(heap, store["bookmarks"]))} = {P4, P20}
    /\ op.value.value # <<>>
    /\ op.value.value[1].position = P4

\* C15 witness: bookmarks at "6.0" and "4.0", inserted in that order, are
\* equally far from "5.0": the one at "6.0" is returned.
C15_WitnessTie ==
    /\ op.name = "find_nearest" /\ op.key = P5
    /\ Len(store["bookmarks"]) = 2
    /\ heap[store["bookmarks"][1].ref].position = P6
    /\ heap[store["bookmarks"][2].ref].position = P4
    /\ op.value.value = <<heap[store["bookmarks"][1].ref]>>

\* C15 witness: no bookmark, and None returned.
C15_WitnessNone ==
    /\ op.name = "find_nearest"
    /\ store["bookmarks"] = <<>>
    /\ op.value.value = <<>>

-----------------------------------------------------------------------------
(* Properties of the position helpers. *)

\* C16: for valid positions "l1.c1" and "l2.c2" (l >= 1, c >= 0), whatever the
\* offsets c1 and c2, those of 1000 and more included: l1 < l2 implies
\* _position_to_float("l1.c1") < _position_to_float("l2.c2"), and on one line
\* c1 < c2 implies the same.
C16_SortableIsMonotonic ==
    (op.name = "_position_to_float" /\ args.kind = "pair") =>
        /\ args.first[1] < args.second[1] => op.value[1] < op.value[2]
        /\ (args.first[1] = args.second[1] /\ args.first[2] < args.second[2]) =>
               op.value[1] < op.value[2]

\* The same for offsets below 1000.
C16_MonotonicBelow1000 ==
    (/\ op.name = "_position_to_float" /\ args.kind = "pair"
     /\ args.first[2] < 1000 /\ args.second[2] < 1000) =>
        /\ args.first[1] < args.second[1] => op.value[1] < op.value[2]
        /\ (args.first[1] = args.second[1] /\ args.first[2] < args.second[2]) =>
               op.value[1] < op.value[2]

\* A part of a position that reads as a whole number: digits, after a sign
\* or not.
IsNumeral(part) ==
    \E k \in 0..1 :
        /\ Len(part) > k
        /\ k = 1 => part[1] \in {"-", "+"}
        /\ \A i \in (k + 1)..Len(part) :
              part[i] \in {"0", "1", "2", "3", "4", "5", "6", "7", "8", "9"}

\* position is a well-formed "line.char": one ".", a numeral on either side.
WellFormed(position) ==
    /\ position # NoPosition
    /\ \E i \in 1..Len(position) :
          /\ position[i] = "."
          /\ \A j \in 1..Len(position) : position[j] = "." => j = i
          /\ IsNumeral(SubSeq(position, 1, i - 1))
          /\ IsNumeral(SubSeq(position, i + 1, Len(position)))

\* C17: _position_to_float never raises, and returns 0.0 for every position
\* that is not a well-formed "line.char": the empty string, parts that are no
\* numbers, no character part, more than two parts, None.
C17_MalformedGivesZero ==
    (op.name = "_position_to_float" /\ args.kind = "position"
        /\ ~WellFormed(args.position)) =>
        op.value = Returned(0)

\* The part of C17 that holds: a position with a part that is no number
\* (the empty string included) gives 0.0.
C17_NonNumericGivesZero ==
    (/\ op.name = "_position_to_float" /\ args.kind = "position"
     /\ args.position # NoPosition
     /\ \E i \in 1..Min(2, Len(split(args.position))) :
            ~IsNumeral(split(args.position)[i])) =>
        op.value = Returned(0)

\* The lines of a text: one more than it has line feeds, line n lying between
\* the line feeds n - 1 and n.
LineFeeds(text) == {i \in 1..Len(text) : text[i] = "NL"}

LineCount(text) == Cardinality(LineFeeds(text)) + 1

LineFeed(text, k) ==
    IF k = 0 THEN 0
    ELSE IF k = LineCount(text) THEN Len(text) + 1
    ELSE CHOOSE i \in LineFeeds(text) :
             Cardinality({j \in LineFeeds(text) : j <= i}) = k

LineText(text, n) == SubSeq(text, LineFeed(text, n - 1) + 1, LineFeed(text, n) - 1)

\* The line and the character offset a well-formed position names.
DotOf(position) == CHOOSE i \in 1..Len(position) : position[i] = "."

LineOf(position) == int(SubSeq(position, 1, DotOf(position) - 1))

CharOf(position) == int(SubSeq(position, DotOf(position) + 1, Len(position)))

\* C18: validate_position(position, text) returns (and never raises) True
\* exactly when position is a well-formed "line.char" with
\* 1 <= line <= number of lines of text and 0 <= char <= length of that line,
\* and False for every other line, every other offset and every malformed
\* position.
C18_ValidateResult ==
    op.name = "validate_position" =>
        op.value = (/\ WellFormed(args.position)
                    /\ LineOf(args.position) \in 1..LineCount(args.text)
                    /\ CharOf(args.position)
                           \in 0..Len(LineText(args.text, LineOf(args.position))))

\* C18 witness: the offset just past the last character of the last line is
\* valid.
C18_Witness ==
    /\ op.name = "validate_position" /\ op.value = TRUE
    /\ args.text = <<"a", "NL", "a">>
    /\ args.position = Position(2, 1)

\* C18 witness: an offset two past the end of the line is refused.
C18_WitnessPastEnd ==
    /\ op.name = "validate_position" /\ op.value = FALSE
    /\ args.text = <<"a", "NL", "a">>
    /\ args.position = Position(1, 2)

\* C18 witness: a line past the last is refused, and so is None.
C18_WitnessPastLast ==
    /\ op.name = "validate_position" /\ op.value = FALSE
    /\ args.text = <<"a", "NL", "a">>
    /\ args.position \in {Position(3, 0), NoPosition}

\* The lines from start_line on that contain search_text.
Matching(text, search_text, start_line) ==
    {n \in 1..LineCount(text) :
        n >= start_line /\ Contains(LineText(text, n), search_text)}

\* The first offset of search_text in a line that contains it.
FirstOffset(line, search_text) ==
    CHOOSE k \in 0..Len(line) :
        /\ SubSeq(line, k + 1, k + Len(search_text)) = search_text
        /\ \A j \in 0..(k - 1) : SubSeq(line, j + 1, j + Len(search_text)) # search_text

\* C19: find_text_position(text, search_text, start_line) returns, for every
\* integer start_line (those below 1 included), the position "line.char" of
\* the first occurrence from start_line on: line is the least line number
\* >= start_line whose text contains search_text (letter case kept), char the
\* first offset of search_text in that line; it returns None when there is no
\* such line; and a position returned passes validate_position on the text.
C19_FindResult ==
    op.name = "find_text_position" =>
        LET lines == Matching(args.text, args.search_text, args.start_line) IN
        IF lines = {} THEN op.value = <<>>
        ELSE LET n == CHOOSE n \in lines : \A m \in lines : n <= m IN
             /\ op.value = <<Position(n, FirstOffset(LineText(args.text, n),
                                                      args.search_text))>>
             /\ validate_position(op.value[1], args.text)

\* The same for start_line >= 1.
C19_FindResultFromLine1 ==
    (op.name = "find_text_position" /\ args.start_line >= 1) =>
        LET lines == Matching(args.text, args.search_text, args.start_line) IN
        IF lines = {} THEN op.value = <<>>
        ELSE LET n == CHOOSE n \in lines : \A m \in lines : n <= m IN
             /\ op.value = <<Position(n, FirstOffset(LineText(args.text, n),
                                                      args.search_text))>>
             /\ validate_position(op.value[1], args.text)

-----------------------------------------------------------------------------
(* Properties of the loader. *)

\* The extension of a path: what follows the stem of its file name, from the
\* last dot on; none when the file name has no dot after its first character
\* that is not one.
ExtensionOf(p) ==
    LET ends == {i \in 1..Len(p) :
                    /\ p[i] = "."
                    /\ \A j \in (i + 1)..Len(p) : p[j] \notin {".", "/"}
                    /\ i > 1 /\ p[i - 1] # "/"
                    /\ \E j \in 1..(i - 1) :
                          /\ p[j] # "."
                          /\ \A k \in j..(i - 1) : p[k] # "/"} IN
    IF ends = {} THEN <<>> ELSE SubSeq(p, CHOOSE i \in ends : TRUE, Len(p))

\* Two texts are the same but for the case of their letters.
SameIgnoringCase(t, u) ==
    Len(t) = Len(u) /\ \A i \in 1..Len(t) : UpperOf(t[i]) = UpperOf(u[i])

\* The reader registered for an extension, in a list; none for any other.
Registered(ext) ==
    IF SameIgnoringCase(ext, <<".", "e", "p", "u", "b">>) THEN <<"EpubReader">>
    ELSE IF SameIgnoringCase(ext, <<".", "p", "d", "f">>) THEN <<"PdfReader">>
    ELSE IF SameIgnoringCase(ext, <<".", "t", "x", "t">>) THEN <<"TextReader">>
    ELSE <<>>

\* C20: load_file raises FileNotFoundError for a path that does not exist,
\* whatever its extension, and ValueError (unsupported format) for a path that
\* exists and whose extension, lower-cased, is none of .epub, .pdf, .txt,
\* calling no reader in either case; for a path that exists with one of the
\* three extensions in any letter case it calls the read of the reader
\* registered for that extension, and of no other.
C20_LoaderDispatch ==
    op.name = "load_file" =>
        IF ~args.exists THEN op.value = Raised("FileNotFoundError")
        ELSE IF Registered(ExtensionOf(args.filepath)) = <<>>
             THEN op.value = Raised("ValueError")
             ELSE op.value = Returned(Registered(ExtensionOf(args.filepath)))

\* C20 witness: /d.txt/a.TxT exists and goes to the text reader.
C20_Witness ==
    /\ op.name = "load_file" /\ args.exists
    /\ args.filepath = <<"/", "d", ".", "t", "x", "t", "/", "a", ".", "T", "x", "T">>
    /\ op.value = Returned(<<"TextReader">>)

\* C20 witness: a.docx exists and is refused; /d.txt/a (no extension of its
\* own) too.
C20_WitnessUnsupported ==
    /\ op.name = "load_file" /\ args.exists
    /\ args.filepath \in {<<"a", ".", "d", "o", "c", "x">>,
                          <<"/", "d", ".", "t", "x", "t", "/", "a">>}
    /\ op.value = Raised("ValueError")

\* C20 witness: a.txt does not exist.
C20_WitnessNotFound ==
    /\ op.name = "load_file" /\ ~args.exists
    /\ args.filepath = <<"a", ".", "t", "x", "t">>
    /\ op.value = Raised("FileNotFoundError")

-----------------------------------------------------------------------------
(* Properties of the text reader. *)

\* A file that is latin1 text with a character outside ASCII, and that is not
\* valid utf-8.
Latin1NotUtf8(bytes) ==
    /\ \E i \in 1..Len(bytes) : bytes[i] >= 128
    /\ utf_8_decode(bytes).raised # ""

\* C21: TextReader.read of a latin1 file that holds bytes outside ASCII and is
\* not valid utf-8 succeeds and returns the latin1 decoding of the file (each
\* byte as the character of that code point), whatever the length and the
\* bytes of the file.
C21_Latin1Fallback ==
    (op.name = "read" /\ Latin1NotUtf8(args.bytes)) =>
        op.value = Returned(args.bytes)

\* The same for the files of an odd number of bytes.
C21_Latin1FallbackOddLength ==
    (op.name = "read" /\ Latin1NotUtf8(args.bytes) /\ Len(args.bytes) % 2 = 1) =>
        op.value = Returned(args.bytes)

\* What read returns is the first decode that succeeds, in the order utf-8,
\* utf-16, latin1, cp1252.
C21_FirstSuccessfulDecode ==
    (op.name = "read" /\ op.value.raised = "") =>
        \E k \in 1..Len(encodings) :
            /\ op.value = decode(args.bytes, encodings[k], args.byteorder)
            /\ \A j \in 1..(k - 1) :
                   decode(args.bytes, encodings[j], args.byteorder).raised # ""

-----------------------------------------------------------------------------
(* Properties of the notes and their highlights. *)

\* A note has a position, or a highlight ID, that is not None.
HasPosition(note) == "position" \in DOMAIN note /\ note.position # NoPosition

HasHighlight(note) == "highlight_id" \in DOMAIN note /\ note.highlight_id # None

\* The notes of the note store, as records.
Notes == Values(heap, store["notes"])

\* C22: every note of the note store is anchored to a position or to a
\* highlight ID and never to both: it has exactly one of the fields position
\* and highlight_id, whatever add_note, add_note_to_highlight, update_note and
\* remove_note did before.
C22_OneAnchor ==
    \A i \in 1..Len(Notes) :
        HasPosition(Notes[i]) # HasHighlight(Notes[i])

\* C22 witness: a note of each kind is in the store after update_note changed one.
C22_Witness ==
    /\ op.name = "update" /\ op.c = "notes" /\ op.value = TRUE
    /\ \E i, j \in 1..Len(Notes) :
          /\ HasPosition(Notes[i]) /\ ~HasHighlight(Notes[i])
          /\ HasHighlight(Notes[j]) /\ ~HasPosition(Notes[j])
          /\ Notes[j].id = op.id

\* C22 witness: remove_note took a note away and a note on a highlight stays.
C22_WitnessRemove ==
    /\ op.name = "remove" /\ op.c = "notes" /\ op.value = TRUE
    /\ \E j \in 1..Len(Notes) : HasHighlight(Notes[j])

-----------------------------------------------------------------------------
(* Properties of the removal of a book. *)

\* C23: remove_book_from_library(book_id) returns True and leaves no entry of
\* that book ID in the library, highlights, notes and bookmarks dicts, whether
\* or not there was one; the entries of every other book ID in the four dicts
\* are what they were before the call.  Each file on disk holds what it held
\* before or the dict without the book.
C23_RemoveCascades ==
    ret.op = "remove_book" =>
        /\ ret.value = TRUE
        /\ DOMAIN library_data = DOMAIN before.library \ {op.key}
        /\ \A k \in DOMAIN library_data : library_data[k] = before.library[k]
        /\ fs[Path("library")] \in
               {before.files[Path("library")], FileOf(json_dump("library", library_data))}
        /\ \A c \in Collections :
              /\ DOMAIN storage_data[c] = DOMAIN before.data[c] \ {op.key}
              /\ \A k \in DOMAIN storage_data[c] :
                     Deref(heap, storage_data[c][k]) = before.data[c][k]
              /\ fs[Path(c)] \in
                     {before.files[Path(c)],
                      FileOf(json_dump(c, DerefDict(heap, storage_data[c])))}

\* C23 witness: book A was in the library with notes and bookmarks and no
\* highlights, book B had an entry in each of the four; A is removed, and B's
\* entries are still there, in memory and on disk.
C23_Witness ==
    /\ ret.op = "remove_book" /\ op.key = get_book_id(BookA)
    /\ DOMAIN before.library = {get_book_id(BookA), get_book_id(BookB)}
    /\ DOMAIN before.data["highlights"] = {get_book_id(BookB)}
    /\ DOMAIN before.data["notes"] = {get_book_id(BookA), get_book_id(BookB)}
    /\ DOMAIN before.data["bookmarks"] = {get_book_id(BookA), get_book_id(BookB)}
    /\ DOMAIN library_data = {get_book_id(BookB)}
    /\ \A c \in Collections :
          /\ DOMAIN storage_data[c] = {get_book_id(BookB)}
          /\ Readable(fs[Path(c)])
          /\ DOMAIN json_load(c, fs[Path(c)].text) = {get_book_id(BookB)}

\* C23 witness: the book removed had no entry anywhere.
C23_WitnessAbsent ==
    /\ ret.op = "remove_book" /\ ret.value = TRUE
    /\ op.key \notin DOMAIN before.library
    /\ \A c \in Collections : op.key \notin DOMAIN before.data[c]
    /\ \E c \in Collections : DOMAIN before.data[c] # {}

\* C23 witness: the write of the notes file failed, and the file still holds
\* the removed book's notes while the dict does not.
C23_WitnessFailedWrite ==
    /\ ret.op = "remove_book"
    /\ op.key \in DOMAIN before.data["notes"]
    /\ op.key \notin DOMAIN storage_data["notes"]
    /\ Readable(fs[Path("notes")])
    /\ op.key \in DOMAIN json_load("notes", fs[Path("notes")].text)

-----------------------------------------------------------------------------
(* Properties of the frame of a save, a delete and a load. *)

\* The dict a file holds: what DataStorage would load from it.
OnDisk(files, c) ==
    IF Readable(files[Path(c)]) THEN json_load(c, files[Path(c)].text) ELSE EmptyDict

\* Two dicts agree on every key but one.
SameBut(d, e, key) ==
    /\ DOMAIN d \ {key} = DOMAIN e \ {key}
    /\ \A k \in DOMAIN d \ {key} : d[k] = e[k]

\* The last call was a save, a delete or a load of one book in one collection.
OneBookCall == op.name \in {"save", "delete", "load"}

\* In memory, the call changed at most the entry of its book in its
\* collection (as long as the process that made the call lives).
FrameInMemory ==
    (OneBookCall /\ ret.op = op.name) =>
        \A c \in Collections :
            IF c = op.c
            THEN SameBut(DerefDict(heap, storage_data[c]), before.data[c], op.key)
            ELSE DerefDict(heap, storage_data[c]) = before.data[c]

\* On disk, the files of the other collections are what they were.
FrameOfOtherFiles ==
    OneBookCall =>
        \A c \in FileNames \ {op.c} : fs[Path(c)] = before.files[Path(c)]

\* On disk, the entries of the other books in the collection are what they were.
FrameOfOtherBooks ==
    OneBookCall => SameBut(OnDisk(fs, op.c), OnDisk(before.files, op.c), op.key)

\* C24: a save, a delete or a load of one book ID in one collection changes
\* only that book ID's entry of that collection; every other entry of every
\* collection is unchanged in memory and on disk, at every step of the write,
\* when the write fails and when the process dies.
C24_OnlyOneEntryChanges ==
    FrameInMemory /\ FrameOfOtherFiles /\ FrameOfOtherBooks

\* The same, for the entries on disk of the other books, when the call was
\* made with the file holding the collection's dict as it was in memory.
C24_OnlyOneEntryChangesWhenInStep ==
    /\ FrameInMemory
    /\ FrameOfOtherFiles
    /\ (OneBookCall /\ OnDisk(before.files, op.c) = before.data[op.c]) =>
           SameBut(OnDisk(fs, op.c), OnDisk(before.files, op.c), op.key)

-----------------------------------------------------------------------------
(* Properties of the load of a book. *)

\* What the three annotation stores hold, as records.
StoreRecords == [c \in Collections |-> Values(heap, store[c])]

\* The step is a load_book that failed.
FailedLoad == calls' = calls + 1 /\ op'.name = "load_book" /\ op'.value = FALSE

\* The current book, its path and the three stores are left as they were.
NothingLoaded ==
    /\ current_book_path' = current_book_path
    /\ current_content' = current_content
    /\ pages' = pages
    /\ StoreRecords' = StoreRecords

\* C25: a load_book that fails, at whatever step (the file is missing, the
\* format is not supported, the reader raises, or a saved annotation record
\* cannot be loaded into its store), leaves the current book, its path and the
\* contents of the three annotation stores as they were before the load.
C25_LoadIsAllOrNothing == [][FailedLoad => NothingLoaded]_vars

\* The same for a load that fails in load_file.
C25_FailedLoadFileChangesNothing ==
    [][(FailedLoad /\ op'.c = "none") => NothingLoaded]_vars

-----------------------------------------------------------------------------
(* Properties of the greedy forming of pages. *)

\* The paragraphs of a text that are not blank, as they stand in the text.
RawParagraphs(text) == SelectSeq(re_split(text), LAMBDA q : strip(q) # <<>>)

\* The estimated line count of a paragraph.
Estimate(paragraph) ==
    (IF PyLen(paragraph) \div 80 >= 1 THEN PyLen(paragraph) \div 80 ELSE 1) + 2

\* The sum of the estimates of paragraphs i..j, and their text on a page.
RECURSIVE SumOfEstimates(_, _, _)
SumOfEstimates(ps, i, j) ==
    IF i > j THEN 0 ELSE Estimate(ps[i]) + SumOfEstimates(ps, i + 1, j)

RECURSIVE PageText(_, _, _)
PageText(ps, i, j) ==
    IF i > j THEN <<>> ELSE ps[i] \o <<"NL", "NL">> \o PageText(ps, i + 1, j)

\* The pages are the paragraphs ps cut before the paragraphs of `starts`, and
\* the cut is the greedy one for the budget.
GreedyCut(pgs, ps, starts, budget) ==
    LET last(s) == IF \E t \in starts : t > s
                   THEN (CHOOSE t \in starts : t > s /\ \A u \in starts : u > s => t <= u) - 1
                   ELSE Len(ps)
        first(k) == CHOOSE s \in starts : Cardinality({t \in starts : t <= s}) = k IN
    /\ Cardinality(starts) = Len(pgs)
    /\ ps # <<>> => 1 \in starts
    /\ \A k \in 1..Len(pgs) :
           pgs[k] = strip(PageText(ps, first(k), last(first(k))))
    /\ \A s \in starts :
           /\ SumOfEstimates(ps, s, last(s)) > budget => last(s) = s
           /\ s > 1 =>
                  \E r \in starts :
                      /\ last(r) = s - 1
                      /\ SumOfEstimates(ps, r, s - 1) + Estimate(ps[s]) > budget

\* Every page holds one paragraph or more; a page whose estimates sum to more
\* than the budget holds one paragraph; a page starts only at a paragraph
\* that would have taken the page before it over the budget.
FormedGreedily(pgs, text, budget) ==
    \E starts \in SUBSET (1..Len(RawParagraphs(text))) :
        GreedyCut(pgs, RawParagraphs(text), starts, budget)

\* C26 as claimed: the pages of ANY displayed document are formed greedily
\* from its paragraphs, each estimated at max(1, length // 80) + 2 lines: every
\* page holds at least one paragraph, only a page of one paragraph is over the
\* lines-per-page budget, and a new page starts only when the next paragraph
\* would take the current page over the budget.
C26_PagesFormedGreedily ==
    Displayed => FormedGreedily(pages, full_text(current_content), lines_per_page)

\* C26 amended: the same for every displayed document that has a paragraph
\* that is not blank; a document without one has a single page that holds no
\* paragraph of it (its white space, or the placeholder).
C26_PagesFormedGreedilyOfParagraphs ==
    (Displayed /\ RawParagraphs(full_text(current_content)) # <<>>) =>
        FormedGreedily(pages, full_text(current_content), lines_per_page)

\* C26 witness: with a budget of 4 lines a paragraph of 240 characters or more
\* (5 lines) has a page of its own, after a page that was not full.
C26_Witness ==
    /\ Displayed /\ lines_per_page = 4
    /\ Len(pages) >= 2
    /\ \E k \in 2..Len(pages) :
          /\ Estimate(pages[k]) > 4
          /\ RawParagraphs(pages[k]) = <<pages[k]>>
          /\ SumOfEstimates(RawParagraphs(pages[k - 1]), 1,
                            Len(RawParagraphs(pages[k - 1]))) < 4
    /\ FormedGreedily(pages, full_text(current_content), lines_per_page)

\* C26 witness: two paragraphs that fill the budget exactly (3 + 4 = 7 lines)
\* share a page.
C26_WitnessFull ==
    /\ Displayed /\ lines_per_page = 7
    /\ Len(RawParagraphs(pages[1])) = 2
    /\ SumOfEstimates(RawParagraphs(pages[1]), 1, 2) = 7

-----------------------------------------------------------------------------
(* Properties of the notes of a removed highlight. *)

\* The step is a remove_highlight.
RemovesHighlight == calls' = calls + 1 /\ op'.name = "remove" /\ op'.c = "highlights"

\* C27: remove_highlight(h) deletes and changes no note: the note store holds
\* the same notes, those of h still with highlight_id h, and
\* get_notes_for_highlight(h) returns what it returned before the removal,
\* while h is no highlight of the highlight store any more.
C27_RemoveHighlightKeepsNotes ==
    [][RemovesHighlight =>
           /\ Notes' = Notes
           /\ get_notes_for_highlight(heap', store'["notes"], op'.id) =
                  get_notes_for_highlight(heap, store["notes"], op'.id)
           /\ op'.id \notin Keys(store'["highlights"])]_vars

\* C27 witness: a highlight that had a note was removed; the note is still
\* there and names the highlight, which is gone.
C27_Witness ==
    /\ op.name = "remove" /\ op.c = "highlights" /\ op.value = TRUE
    /\ op.id \notin Keys(store["highlights"])
    /\ get_notes_for_highlight(heap, store["notes"], op.id) # <<>>
    /\ \A i \in 1..Len(get_notes_for_highlight(heap, store["notes"], op.id)) :
           get_notes_for_highlight(heap, store["notes"], op.id)[i].highlight_id = op.id

-----------------------------------------------------------------------------
(* Properties of the notes field of a highlight. *)

\* The highlights of the highlight store, as records.
Highlights == Values(heap, store["highlights"])

\* The IDs of the notes of the note store attached to a highlight.
NotesOf(highlight_id) ==
    {Notes[i].id : i \in {i \in 1..Len(Notes) :
                             /\ HasHighlight(Notes[i])
                             /\ Notes[i].highlight_id = highlight_id}}

\* C28: the notes field of every highlight of the highlight store lists the
\* IDs of the notes attached to it: its elements are the IDs of the notes of
\* the note store whose highlight_id is the highlight's ID.
C28_NotesFieldListsNotes ==
    \A i \in 1..Len(Highlights) :
        Range(Highlights[i].notes) = NotesOf(Highlights[i].id)

\* The notes field of every highlight is the empty list.
C28_NotesFieldIsEmpty ==
    \A i \in 1..Len(Highlights) : Highlights[i].notes = <<>>

-----------------------------------------------------------------------------
(* Properties of the storage between saves. *)

\* What storage.load_X(book_id) returns, for every collection and book ID.
StorageReturns ==
    [c \in Collections |->
        [b \in StoreBookIds |-> Deref(heap, storage_load(storage_data, c, b))]]

\* The step is an add, a remove or an update on a store that was just loaded
\* from the storage.
ChangesLoadedStore ==
    /\ op.name = "load"
    /\ calls' = calls + 1
    /\ op'.name \in {"add", "remove", "update"}
    /\ op'.c = op.c

\* C29: an add, a remove or an update on a store that was loaded from
\* storage.load_X(book_id) changes nothing of what storage.load_X returns, for
\* any book ID: until a save, the storage returns what was last saved.
C29_StorageKeepsWhatWasSaved ==
    [][ChangesLoadedStore => StorageReturns' = StorageReturns]_vars

\* The same for add and remove alone, on any store.
C29_AddAndRemoveKeepStorage ==
    [][(calls' = calls + 1 /\ op'.name \in {"add", "remove"}) =>
           StorageReturns' = StorageReturns]_vars

-----------------------------------------------------------------------------
(* The current page over a session of loads, page turns and font changes. *)

\* get_page_info: the reported page, the page count and the progress (as the
\* exact fraction numerator / denominator of a percentage).
get_page_info ==
    [current_page |-> current_page + 1,
     total_pages |-> Len(pages),
     progress |-> IF pages # <<>>
                  THEN [numerator |-> (current_page + 1) * 100, denominator |-> Len(pages)]
                  ELSE [numerator |-> 0, denominator |-> 1]]

\* The step paginates: a document is loaded or the setters refreshed it.
Repaginates == nav'.op = "display_content" /\ (nav' # nav \/ font' # font)

\* The step is a setter's refresh of the document on display.
SetterRefreshes == font' # font /\ current_content.loaded

CurrentPageInRange ==
    LET info == get_page_info IN
    /\ 0 <= current_page /\ current_page < Len(pages)
    /\ info.current_page \in 1..info.total_pages
    /\ info.progress.numerator > 0
    /\ info.progress.numerator <= 100 * info.progress.denominator

\* C30: once a document has been displayed, 0 <= current_page < page count
\* after every page turn, document load and font or line-spacing change; a
\* re-pagination leaves the first page current; the reported page is within
\* 1..page count and the progress is above 0 and at most 100.
C30_CurrentPageInRange ==
    [][/\ Displayed' => CurrentPageInRange'
       /\ Repaginates => current_page' = 0
       /\ SetterRefreshes => Repaginates /\ current_page' = 0]_vars

\* A setter has refreshed a document of several pages that was not on its
\* first page: the first page is current again.
C30_Witness ==
    /\ Displayed
    /\ font # DefaultFont
    /\ nav.op = "display_content"
    /\ nav.before > 0
    /\ Len(pages) >= 2
    /\ current_page = 0

\* A document of fewer pages was loaded while a later page was current.
C30_WitnessLoad ==
    /\ Displayed
    /\ font = DefaultFont
    /\ nav.op = "display_content"
    /\ nav.before >= Len(pages)
    /\ current_page = 0
====
